---------------------------- MODULE Spec2Model ----------------------------
(***************************************************************************)
(* A model of ManifoldNT (src/python/snap/ManifoldNT.py): the cached       *)
(* arithmetic invariants of one manifold, the precision records that feed  *)
(* next_prec_and_degree, and the operations that resolve, reset and read   *)
(* them.  The external collaborators (find_field, express, the host        *)
(* manifold's homology) are nondeterministic choices over their possible   *)
(* results.                                                                *)
(***************************************************************************)
EXTENDS Integers, FiniteSets, Sequences, TLC

VARIABLES
    homology,                                   \* elementary divisors of the host manifold
    _trace_field,
    _trace_field_numerical_root,
    _trace_field_generators,
    _trace_field_prec_record,
    _invariant_trace_field,
    _invariant_trace_field_numerical_root,
    _invariant_trace_field_generators,
    _invariant_trace_field_prec_record,
    _quaternion_algebra,
    _quaternion_algebra_prec_record,
    _invariant_quaternion_algebra,
    _invariant_quaternion_algebra_prec_record,
    _denominators,
    _denominator_residue_characteristics,
    _approx_trace_field_gens,
    _approx_invariant_trace_field_gens,
    last,                                       \* what the last call did and returned
    overrides,                                  \* whether the caller passes prec and degree
    comparing,                                  \* whether the caller compares manifolds
    comparisons,                                \* the comparisons and computations started
    computing,                                  \* whether the caller computes all at once
    interleaving,                               \* whether a filling may come during an attempt
    reattempting,                               \* whether the caller repeats recorded coordinates
    flight,                                     \* the attempt whose search is done, or None
    call                                        \* the comparison in progress, or None

caches == <<_trace_field, _trace_field_numerical_root, _trace_field_generators,
            _invariant_trace_field, _invariant_trace_field_numerical_root,
            _invariant_trace_field_generators,
            _quaternion_algebra, _invariant_quaternion_algebra>>

records == <<_trace_field_prec_record, _invariant_trace_field_prec_record,
             _quaternion_algebra_prec_record,
             _invariant_quaternion_algebra_prec_record>>

\* What the caller does with the object: it does not change.
caller == <<overrides, comparing, computing, interleaving, reattempting>>

denoms == <<_denominators, _denominator_residue_characteristics>>

approx == <<_approx_trace_field_gens, _approx_invariant_trace_field_gens>>

vars == <<homology, caches, records, denoms, approx, last, overrides, comparing,
          comparisons, computing, interleaving, reattempting, flight, call>>

-----------------------------------------------------------------------------
(* Bounds of the model. *)

\* An attempt is made only at a precision reachable in this many escalations.
MaxEscalations == 1

\* A new coordinate is attempted only while the four precision records hold
\* fewer than this many coordinates between them.
MaxAttempts == 2

\* The largest degree a field of the manifold may have.
MaxFieldDegree == 8

\* The largest number of tries of the epsilon loop on which express returns a
\* zero entry before it returns two nonzero entries or None.
MaxEpsilonRetries == 1

\* The comparisons a caller starts.
MaxComparisons == 2

\* The calls of compute_arithmetic_invariants a caller makes.
MaxComputations == 1

-----------------------------------------------------------------------------
(* Program constants: the defaults of next_prec_and_degree. *)

starting_prec == 1000

starting_degree == 20

prec_increment == 5000

degree_increment == 5

-----------------------------------------------------------------------------
(* Values. *)

None == [tag |-> "None"]

PrecDegreeTuple(p, d) == [prec |-> p, degree |-> d]

\* The explicit precisions and degrees a caller passes (None: let the planner choose).
ExplicitPrecs == {500}

ExplicitDegrees == {25}

\* A Python set held in an attribute that may also hold None.
PySet(S) == [tag |-> "set", elements |-> S]

\* A Python bool held where None may also be held.
Bool(b) == [tag |-> "bool", val |-> b]

\* An optional integer argument: None, or the integer passed.
Given(v) == [tag |-> "int", val |-> v]

PrecArgs == IF overrides THEN {None} \cup {Given(p) : p \in ExplicitPrecs} ELSE {None}

\* A caller who passes a precision passes a degree with it.
DegreeArgs(prec) == IF prec = None THEN {None} ELSE {Given(d) : d \in ExplicitDegrees}

MaxAttemptPrec == starting_prec + MaxEscalations * prec_increment

\* The degrees the exact fields of the manifold may have.
FieldDegrees == {2, MaxFieldDegree}

\* The prime ideals (named by their residue characteristic) that may divide
\* the denominators of the exact generators.
PrimeIdeal(p) == [tag |-> "prime ideal", over |-> p]

\* The exact generators of a field of the smallest degree are integral; the
\* others have a denominator over 2.
DenominatorsOfGens(fd) == IF fd = 2 THEN {} ELSE {PrimeIdeal(2)}

\* The host manifold's homology: Z/3 (a mod-2-homology sphere) or Z/2 + Z.
Homologies == {<<3>>, <<2, 0>>}

\* The two approximate generator sequences the host manifold hands out; a
\* search on them finds the field as the polynomial and the embedding of the
\* sequence give it.
TraceFieldGens ==
    [tag |-> "approx gens", of |-> "trace field", poly |-> "f", embedding |-> "z"]

InvariantTraceFieldGens ==
    [tag |-> "approx gens", of |-> "invariant trace field", poly |-> "f", embedding |-> "z"]

\* A number field with its embedding in CC: the generators that span it, its
\* degree, its number of complex places, the polynomial that defines it and
\* the root of the polynomial that embeds it.
NumberField(of, deg, complex_places, poly, embedding) ==
    [tag |-> "field", of |-> of, deg |-> deg, complex_places |-> complex_places,
     poly |-> poly, embedding |-> embedding]

\* field.signature(): (real places, complex places).
signature(field) == <<field.deg - 2 * field.complex_places, field.complex_places>>

\* The numbers of complex places the exact fields may have.
ComplexPlaces == {1, 2}

Kinds == {"trace field", "invariant trace field", "quaternion algebra",
          "invariant quaternion algebra"}

SetMin(S) == CHOOSE x \in S : \A y \in S : x <= y

SetMax(S) == CHOOSE x \in S : \A y \in S : x >= y

\* floor(log(num/den, 2)) for positive integers num, den.
RECURSIVE FloorLog2(_, _)
FloorLog2(num, den) ==
    IF num >= den
    THEN IF num >= 2 * den THEN 1 + FloorLog2(num, 2 * den) ELSE 0
    ELSE FloorLog2(2 * num, den) - 1

\* dict[key] = value
DictSet(dict, key, value) ==
    [k \in DOMAIN dict \cup {key} |-> IF k = key THEN value ELSE dict[k]]

EmptyDict == [k \in {} |-> FALSE]

-----------------------------------------------------------------------------
(* External collaborators. *)

\* find_field(prec, degree, optimize=True) on an approximate generator
\* sequence: None, or (exact field, numerical root, exact generators) for a
\* field whose degree does not exceed the degree searched.
FindFieldResults(gens, prec, degree) ==
    {None} \cup
    { [tag |-> "exact field data",
       field |-> NumberField(gens.of, sig[1], sig[2], gens.poly, gens.embedding),
       root |-> [tag |-> "root", deg |-> sig[1], of |-> gens.of,
                 embedding |-> gens.embedding],
       gens |-> [tag |-> "exact gens", deg |-> sig[1], of |-> gens.of,
                 den |-> DenominatorsOfGens(sig[1])]]
      : sig \in {x \in FieldDegrees \X ComplexPlaces :
                     x[1] <= degree /\ 2 * x[2] <= x[1]} }

\* What the epsilon loop of the algebra methods leaves in first_entry and
\* second_entry when it ends: each None or a nonzero element of the field,
\* negative at every real place of the field or positive at every one.
ExpressResults == {None} \cup {[tag |-> "element", negative |-> n] : n \in BOOLEAN}

\* The epsilon coefficient the loop of the algebra methods ends with: 10,
\* multiplied by 10 on every try on which express returned a zero entry.
EpsilonCoefficients == {10 * 10^retries : retries \in 0..MaxEpsilonRetries}

-----------------------------------------------------------------------------
(* Pure helpers of the class. *)

\* The upper-case letters with their lower-case letters.
LowerCase ==
    { <<"A", "a">>, <<"B", "b">>, <<"C", "c">>, <<"D", "d">>, <<"E", "e">>,
      <<"F", "f">>, <<"G", "g">>, <<"H", "h">>, <<"I", "i">>, <<"J", "j">>,
      <<"K", "k">>, <<"L", "l">>, <<"M", "m">>, <<"N", "n">>, <<"O", "o">>,
      <<"P", "p">>, <<"Q", "q">>, <<"R", "r">>, <<"S", "s">>, <<"T", "t">>,
      <<"U", "u">>, <<"V", "v">>, <<"W", "w">>, <<"X", "x">>, <<"Y", "y">>,
      <<"Z", "z">> }

\* str.lower(): every upper-case letter replaced by its lower-case letter.
RECURSIVE lower(_)
lower(str) ==
    IF str = ""
    THEN ""
    ELSE LET c == SubSeq(str, 1, 1)
             l == IF \E pair \in LowerCase : pair[1] = c
                  THEN (CHOOSE pair \in LowerCase : pair[1] = c)[2]
                  ELSE c
         IN  l \o lower(SubSeq(str, 2, Len(str)))

\* The characters str.strip() removes.
Whitespace == {" ", "\t", "\n", "\r", "\f"}

\* str.strip(): the string without its leading and trailing whitespace.
RECURSIVE strip(_)
strip(str) ==
    IF str = ""
    THEN ""
    ELSE IF SubSeq(str, 1, 1) \in Whitespace
    THEN strip(SubSeq(str, 2, Len(str)))
    ELSE IF SubSeq(str, Len(str), Len(str)) \in Whitespace
    THEN strip(SubSeq(str, 1, Len(str) - 1))
    ELSE str

\* fix_names comparing the name as it is spelled.
fix_names_as_spelled(given_name) ==
    LET name == given_name
    IN  CASE name \in {"tf", "trace field"} -> "trace field"
          [] name \in {"itf", "invariant trace field"} -> "invariant trace field"
          [] name \in {"qa", "quaternion algebra"} -> "quaternion algebra"
          [] name \in {"iqa", "invariant quaternion algebra"} ->
                 "invariant quaternion algebra"
          [] OTHER -> "ValueError"

\* Lines 27-38; "ValueError" stands for the ValueError raised.
fix_names(given_name) ==
    LET name == strip(lower(given_name))
    IN  CASE name \in {"tf", "trace field"} -> "trace field"
          [] name \in {"itf", "invariant trace field"} -> "invariant trace field"
          [] name \in {"qa", "quaternion algebra"} -> "quaternion algebra"
          [] name \in {"iqa", "invariant quaternion algebra"} ->
                 "invariant quaternion algebra"
          [] OTHER -> "ValueError"

\* The names a caller asks the planner for: of each kind, its two names in
\* several spellings.
Spellings ==
    [k \in Kinds |->
        CASE k = "trace field" -> {"tf", "TF", " tf", "trace field", "Trace Field\n"}
          [] k = "invariant trace field" ->
                 {"itf", "Itf ", "invariant trace field", "\tINVARIANT TRACE FIELD"}
          [] k = "quaternion algebra" ->
                 {"qa", " QA ", "quaternion algebra", "Quaternion algebra"}
          [] k = "invariant quaternion algebra" ->
                 {"iqa", "iQa", "invariant quaternion algebra",
                  "  Invariant Quaternion Algebra  "}]

\* Names of no kind.
Unrecognized ==
    {"", " ", "t f", "tfs", "trace_field", "trace  field", "field", "invariant", "qa."}

\* The names the planner is asked for.
Names == UNION {Spellings[k] : k \in Kinds} \cup Unrecognized

\* fix_names of the names the planner is asked for, computed once.
fixed_names == [name \in Names |-> fix_names(name)]

\* An exception that leaves a call.
Raised(error) == [tag |-> "raised", error |-> error]

is_modtwo_homology_sphere ==
    LET factors == {i \in DOMAIN homology : homology[i] = 0 \/ homology[i] % 2 = 0}
    IN  Cardinality(factors) = 0

_dict_of_prec_records(invariant) ==
    CASE invariant = "trace field" -> _trace_field_prec_record
      [] invariant = "invariant trace field" -> _invariant_trace_field_prec_record
      [] invariant = "quaternion algebra" -> _quaternion_algebra_prec_record
      [] invariant = "invariant quaternion algebra" -> _invariant_quaternion_algebra_prec_record


-----------------------------------------------------------------------------
(* next_prec_and_degree: the planner. *)

\* The keys of a precision record whose outcome is `outcome`.
KeysWith(record, outcome) == {k \in DOMAIN record : record[k] = outcome}

\* starting_newpair with the two defaults in each other's place.
starting_newpair_swapped == PrecDegreeTuple(starting_degree, starting_prec)

\* Line 178: the defaults, for an empty record.
starting_newpair == PrecDegreeTuple(starting_prec, starting_degree)

\* successful_newpair as the least successful pair, min(pairs): the success of
\* the smallest precision, its own degree with it.
successful_newpair_of_one_attempt(record) ==
    CHOOSE pair \in KeysWith(record, TRUE) :
        \A other \in KeysWith(record, TRUE) :
            \/ pair.prec < other.prec
            \/ pair.prec = other.prec /\ pair.degree <= other.degree

\* Lines 180-188: the smallest successful precision and the smallest
\* successful degree, each over all the successes of the record.
successful_newpair(record) ==
    LET smallest_successful_prec == SetMin({pair.prec : pair \in KeysWith(record, TRUE)})
        smallest_successful_degree == SetMin({pair.degree : pair \in KeysWith(record, TRUE)})
    IN  PrecDegreeTuple(smallest_successful_prec, smallest_successful_degree)

\* failed_newpair without the increment of the precision.
failed_newpair_without_prec_increment(record) ==
    LET largest_failed_prec == SetMax({pair.prec : pair \in KeysWith(record, FALSE)})
        largest_failed_degree == SetMax({pair.degree : pair \in KeysWith(record, FALSE)})
    IN  PrecDegreeTuple(largest_failed_prec, largest_failed_degree + degree_increment)

\* Lines 190-199: one increment beyond the largest failures.
failed_newpair(record) ==
    LET largest_failed_prec == SetMax({pair.prec : pair \in KeysWith(record, FALSE)})
        largest_failed_degree == SetMax({pair.degree : pair \in KeysWith(record, FALSE)})
    IN  PrecDegreeTuple(largest_failed_prec + prec_increment,
                        largest_failed_degree + degree_increment)

\* Line 209: (floor(log(implied_deg / itf_deg, 2)) + 1) * itf_deg, where
\* implied_deg = prec * asymptotic_ratio = prec * degree_increment / prec_increment.
implied_new_deg(prec, itf_deg) ==
    (FloorLog2(prec * degree_increment, prec_increment * itf_deg) + 1) * itf_deg

\* Lines 200-210: the trace field's degree from a known invariant trace field.
trace_field_correction(newpair) ==
    IF _invariant_trace_field # None
    THEN LET itf_deg == _invariant_trace_field.deg
         IN  IF is_modtwo_homology_sphere
             THEN PrecDegreeTuple(newpair.prec, itf_deg)
             ELSE PrecDegreeTuple(newpair.prec, implied_new_deg(newpair.prec, itf_deg))
    ELSE newpair

\* invariant_trace_field_correction leaving the escalated degree.
invariant_trace_field_uncorrected(newpair) == newpair

\* Lines 211-217: the invariant trace field's degree from a known trace field.
invariant_trace_field_correction(newpair) ==
    IF _trace_field # None
    THEN PrecDegreeTuple(newpair.prec, _trace_field.deg)
    ELSE newpair

\* Lines 176-218: the next (prec, degree) for a field kind.
next_field_prec_and_degree(invariant) ==
    LET record == _dict_of_prec_records(invariant)
    IN  IF DOMAIN record = {}
        THEN starting_newpair
        ELSE IF KeysWith(record, TRUE) # {}
        THEN successful_newpair(record)
        ELSE IF invariant = "trace field"
        THEN trace_field_correction(failed_newpair(record))
        ELSE invariant_trace_field_correction(failed_newpair(record))

\* next_algebra_prec without the largest failed precision: the field's next
\* precision unless an attempt succeeded.
next_algebra_prec_of_the_field(invariant) ==
    LET record == _dict_of_prec_records(invariant)
        field == IF invariant = "quaternion algebra"
                 THEN "trace field" ELSE "invariant trace field"
        field_prec == next_field_prec_and_degree(field).prec
    IN  IF DOMAIN record = {}
        THEN field_prec
        ELSE IF KeysWith(record, TRUE) # {}
        THEN SetMin(KeysWith(record, TRUE))
        ELSE field_prec

\* Lines 220-236: the next precision for an algebra kind.
next_algebra_prec(invariant) ==
    LET record == _dict_of_prec_records(invariant)
        field == IF invariant = "quaternion algebra"
                 THEN "trace field" ELSE "invariant trace field"
        field_prec == next_field_prec_and_degree(field).prec
        largest_failed_prec == SetMax(KeysWith(record, FALSE))
    IN  IF DOMAIN record = {}
        THEN field_prec
        ELSE IF KeysWith(record, TRUE) # {}
        THEN SetMin(KeysWith(record, TRUE))
        ELSE IF largest_failed_prec + prec_increment >= field_prec
        THEN largest_failed_prec + prec_increment
        ELSE field_prec

\* Lines 174-236: a PrecDegreeTuple for the field kinds, an integer for the
\* algebras.
next_prec_and_degree(name) ==
    LET invariant == fixed_names[name]
    IN  IF invariant = "ValueError"
        THEN Raised("ValueError")
        ELSE IF invariant \in {"trace field", "invariant trace field"}
        THEN next_field_prec_and_degree(invariant)
        ELSE next_algebra_prec(invariant)

-----------------------------------------------------------------------------
(* The state after construction, lines 61-92. *)

NoWrites == [k \in Kinds |-> 0]

\* What a call reports: its name, the value it returned, how many times it
\* called find_field, how many entries it wrote in each precision record, and
\* whether it was answered from the cache.
Report(op, ret, calls, wrote) ==
    [op |-> op, ret |-> ret, find_field |-> calls, wrote |-> wrote, hit |-> FALSE,
     epsilon_coefficient |-> 0, collaborators |-> None]

\* The report of a call that ran the epsilon loop, with the coefficient the
\* loop ended with.
Looped(report, epsilon_coefficient) ==
    [report EXCEPT !.epsilon_coefficient = epsilon_coefficient]

\* The report of a call answered from the cache.
CacheHit(op, ret) == [Report(op, ret, 0, NoWrites) EXCEPT !.hit = TRUE]

Constructed ==
    /\ homology \in Homologies
    /\ _trace_field = None
    /\ _trace_field_numerical_root = None
    /\ _trace_field_generators = None
    /\ _trace_field_prec_record = EmptyDict
    /\ _invariant_trace_field = None
    /\ _invariant_trace_field_numerical_root = None
    /\ _invariant_trace_field_generators = None
    /\ _invariant_trace_field_prec_record = EmptyDict
    /\ _quaternion_algebra = None
    /\ _quaternion_algebra_prec_record = EmptyDict
    /\ _invariant_quaternion_algebra = None
    /\ _invariant_quaternion_algebra_prec_record = EmptyDict
    /\ _denominators = None
    /\ _denominator_residue_characteristics = None
    /\ _approx_trace_field_gens = TraceFieldGens
    /\ _approx_invariant_trace_field_gens =
           IF is_modtwo_homology_sphere THEN TraceFieldGens ELSE InvariantTraceFieldGens
    /\ last = Report("__init__", None, 0, NoWrites)
    /\ overrides \in BOOLEAN
    /\ comparing \in BOOLEAN
    /\ comparing => ~overrides
    /\ comparisons = 0
    /\ computing \in BOOLEAN
    /\ computing => ~comparing
    /\ call = None
    /\ flight = None

\* One call at a time, each coordinate a caller passes counted as an attempt.
Init == Constructed /\ interleaving = FALSE /\ reattempting = FALSE

-----------------------------------------------------------------------------
(* trace_field and invariant_trace_field. *)

TotalKeys ==
    Cardinality(DOMAIN _trace_field_prec_record)
    + Cardinality(DOMAIN _invariant_trace_field_prec_record)
    + Cardinality(DOMAIN _quaternion_algebra_prec_record)
    + Cardinality(DOMAIN _invariant_quaternion_algebra_prec_record)

\* The model attempts a coordinate only within its bounds: the precision is
\* one the planner reaches in MaxEscalations escalations, and a caller who
\* passes precisions and degrees of its own makes MaxAttempts attempts, next
\* to which a reattempting caller repeats coordinates the record holds.
InBounds(record, key, prec) ==
    /\ prec <= MaxAttemptPrec
    /\ (overrides /\ ~computing)
           => \/ TotalKeys < MaxAttempts
              \/ reattempting /\ key \in DOMAIN record

\* propagates without the test that the invariant trace field is unresolved.
propagates_when_resolved(exact_field_data) ==
    /\ exact_field_data # None
    /\ ~is_modtwo_homology_sphere

\* propagates without the test of the homology.
propagates_on_spheres(exact_field_data) ==
    /\ exact_field_data # None
    /\ _invariant_trace_field = None

\* Lines 328 and 332-335: a found trace field is also taken as the invariant
\* trace field.
propagates(exact_field_data) ==
    /\ exact_field_data # None
    /\ _invariant_trace_field = None
    /\ ~is_modtwo_homology_sphere

\* trace_field_attempt keeping the outcome a coordinate already has
\* (setdefault).
trace_field_attempt_keeping_first(prec, degree, exact_field_data) ==
    /\ _trace_field_prec_record' =
           IF PrecDegreeTuple(prec, degree) \in DOMAIN _trace_field_prec_record
           THEN _trace_field_prec_record
           ELSE DictSet(_trace_field_prec_record, PrecDegreeTuple(prec, degree),
                        exact_field_data # None)
    /\ IF exact_field_data # None
       THEN /\ _trace_field' = exact_field_data.field
            /\ _trace_field_numerical_root' = exact_field_data.root
            /\ _trace_field_generators' = exact_field_data.gens
            /\ IF propagates(exact_field_data)
               THEN /\ _invariant_trace_field_prec_record' =
                           DictSet(_invariant_trace_field_prec_record,
                                   PrecDegreeTuple(prec, degree), TRUE)
                    /\ _invariant_trace_field' = exact_field_data.field
                    /\ _invariant_trace_field_numerical_root' = exact_field_data.root
                    /\ _invariant_trace_field_generators' = exact_field_data.gens
               ELSE UNCHANGED <<_invariant_trace_field_prec_record, _invariant_trace_field,
                                _invariant_trace_field_numerical_root,
                                _invariant_trace_field_generators>>
       ELSE UNCHANGED <<_trace_field, _trace_field_numerical_root, _trace_field_generators,
                        _invariant_trace_field_prec_record, _invariant_trace_field,
                        _invariant_trace_field_numerical_root,
                        _invariant_trace_field_generators>>

\* Lines 320-341: the search, the record of its outcome, the caches.
trace_field_attempt(prec, degree, exact_field_data) ==
    /\ _trace_field_prec_record' =
           DictSet(_trace_field_prec_record, PrecDegreeTuple(prec, degree),
                   exact_field_data # None)
    /\ IF exact_field_data # None
       THEN /\ _trace_field' = exact_field_data.field
            /\ _trace_field_numerical_root' = exact_field_data.root
            /\ _trace_field_generators' = exact_field_data.gens
            /\ IF propagates(exact_field_data)
               THEN /\ _invariant_trace_field_prec_record' =
                           DictSet(_invariant_trace_field_prec_record,
                                   PrecDegreeTuple(prec, degree), TRUE)
                    /\ _invariant_trace_field' = exact_field_data.field
                    /\ _invariant_trace_field_numerical_root' = exact_field_data.root
                    /\ _invariant_trace_field_generators' = exact_field_data.gens
               ELSE UNCHANGED <<_invariant_trace_field_prec_record, _invariant_trace_field,
                                _invariant_trace_field_numerical_root,
                                _invariant_trace_field_generators>>
       ELSE UNCHANGED <<_trace_field, _trace_field_numerical_root, _trace_field_generators,
                        _invariant_trace_field_prec_record, _invariant_trace_field,
                        _invariant_trace_field_numerical_root,
                        _invariant_trace_field_generators>>

\* The entries trace_field_attempt writes.
trace_field_writes(exact_field_data) ==
    [NoWrites EXCEPT
        !["trace field"] = 1,
        !["invariant trace field"] = IF propagates(exact_field_data) THEN 1 ELSE 0]

\* trace_field_cached with the test of the degree inverted.
trace_field_cached_degree_given(prec, degree) ==
    _trace_field # None /\ prec = None /\ degree # None

\* trace_field_cached without the tests of the arguments.
trace_field_cached_ignoring_override(prec, degree) ==
    _trace_field # None

\* Line 314.
trace_field_cached(prec, degree) ==
    _trace_field # None /\ prec = None /\ degree = None

trace_field(prec, degree) ==
    IF trace_field_cached(prec, degree)
    THEN /\ last' = CacheHit("trace_field", _trace_field)
         /\ UNCHANGED <<homology, caches, records, denoms, approx>>
    ELSE LET p == IF prec = None THEN next_prec_and_degree("tf").prec ELSE prec.val
             d == IF degree = None THEN next_prec_and_degree("tf").degree ELSE degree.val
         IN  /\ InBounds(_trace_field_prec_record, PrecDegreeTuple(p, d), p)
             /\ \E exact_field_data \in FindFieldResults(_approx_trace_field_gens, p, d) :
                    /\ trace_field_attempt(p, d, exact_field_data)
                    /\ last' = Report("trace_field",
                                      IF exact_field_data # None
                                      THEN exact_field_data.field ELSE None,
                                      1, trace_field_writes(exact_field_data))
             /\ UNCHANGED <<homology, _quaternion_algebra, _quaternion_algebra_prec_record,
                            _invariant_quaternion_algebra,
                            _invariant_quaternion_algebra_prec_record, denoms, approx>>

\* invariant_trace_field_attempt assigning the caches before it tests the
\* result of the search.
invariant_trace_field_attempt_assigning_failure(prec, degree, exact_field_data) ==
    /\ _invariant_trace_field_prec_record' =
           DictSet(_invariant_trace_field_prec_record, PrecDegreeTuple(prec, degree),
                   exact_field_data # None)
    /\ _invariant_trace_field' =
           IF exact_field_data # None THEN exact_field_data.field ELSE None
    /\ _invariant_trace_field_numerical_root' =
           IF exact_field_data # None THEN exact_field_data.root ELSE None
    /\ _invariant_trace_field_generators' =
           IF exact_field_data # None THEN exact_field_data.gens ELSE None

\* Lines 378-390.
invariant_trace_field_attempt(prec, degree, exact_field_data) ==
    /\ _invariant_trace_field_prec_record' =
           DictSet(_invariant_trace_field_prec_record, PrecDegreeTuple(prec, degree),
                   exact_field_data # None)
    /\ IF exact_field_data # None
       THEN /\ _invariant_trace_field' = exact_field_data.field
            /\ _invariant_trace_field_numerical_root' = exact_field_data.root
            /\ _invariant_trace_field_generators' = exact_field_data.gens
       ELSE UNCHANGED <<_invariant_trace_field, _invariant_trace_field_numerical_root,
                        _invariant_trace_field_generators>>

\* Line 372.
invariant_trace_field_cached(prec, degree) ==
    _invariant_trace_field # None /\ prec = None /\ degree = None

invariant_trace_field(prec, degree) ==
    IF invariant_trace_field_cached(prec, degree)
    THEN /\ last' = CacheHit("invariant_trace_field", _invariant_trace_field)
         /\ UNCHANGED <<homology, caches, records, denoms, approx>>
    ELSE LET p == IF prec = None THEN next_prec_and_degree("itf").prec ELSE prec.val
             d == IF degree = None THEN next_prec_and_degree("itf").degree ELSE degree.val
         IN  /\ InBounds(_invariant_trace_field_prec_record, PrecDegreeTuple(p, d), p)
             /\ \E exact_field_data \in
                        FindFieldResults(_approx_invariant_trace_field_gens, p, d) :
                    /\ invariant_trace_field_attempt(p, d, exact_field_data)
                    /\ last' = Report("invariant_trace_field",
                                      IF exact_field_data # None
                                      THEN exact_field_data.field ELSE None,
                                      1, [NoWrites EXCEPT !["invariant trace field"] = 1])
             /\ UNCHANGED <<homology, _trace_field, _trace_field_numerical_root,
                            _trace_field_generators, _trace_field_prec_record,
                            _quaternion_algebra, _quaternion_algebra_prec_record,
                            _invariant_quaternion_algebra,
                            _invariant_quaternion_algebra_prec_record, denoms, approx>>

-----------------------------------------------------------------------------
(* quaternion_algebra and invariant_quaternion_algebra. *)

\* The algebra (first_entry, second_entry) over the field: it ramifies at the
\* real places where both entries are negative, and then also over 2.
QuaternionAlgebraNF(field, first_entry, second_entry, power) ==
    [tag |-> "quaternion algebra", field |-> field, power |-> power,
     ramified_real_places |->
         IF first_entry.negative /\ second_entry.negative
         THEN signature(field)[1] ELSE 0,
     ramified_residue_characteristics |->
         IF first_entry.negative /\ second_entry.negative THEN {2} ELSE {}]

\* quaternion_algebra_attempt recording a success as soon as one entry is
\* expressed.
quaternion_algebra_attempt_recording_one_entry(prec, field, first_entry, second_entry) ==
    /\ _quaternion_algebra_prec_record' =
           DictSet(_quaternion_algebra_prec_record, prec,
                   first_entry # None \/ second_entry # None)
    /\ _quaternion_algebra' =
           IF first_entry = None \/ second_entry = None
           THEN _quaternion_algebra
           ELSE QuaternionAlgebraNF(field, first_entry, second_entry, 1)

\* Lines 482-509, with the trace field `field` in hand: the epsilon loop has
\* ended with first_entry and second_entry.
quaternion_algebra_attempt(prec, field, first_entry, second_entry) ==
    /\ _quaternion_algebra_prec_record' =
           DictSet(_quaternion_algebra_prec_record, prec,
                   first_entry # None /\ second_entry # None)
    /\ _quaternion_algebra' =
           IF first_entry = None \/ second_entry = None
           THEN _quaternion_algebra
           ELSE QuaternionAlgebraNF(field, first_entry, second_entry, 1)

quaternion_algebra(prec) ==
    IF _quaternion_algebra # None /\ prec = None
    THEN /\ last' = CacheHit("quaternion_algebra", _quaternion_algebra)
         /\ UNCHANGED <<homology, caches, records, denoms, approx>>
    ELSE LET p == IF prec = None THEN next_prec_and_degree("qa") ELSE prec.val
             \* trace_field(prec=p) takes its degree from the planner
             d == next_prec_and_degree("tf").degree
         IN  /\ p <= MaxAttemptPrec
             /\ UNCHANGED <<homology, _invariant_quaternion_algebra,
                            _invariant_quaternion_algebra_prec_record, denoms, approx>>
             /\ IF _trace_field = None
                THEN /\ InBounds(_trace_field_prec_record, PrecDegreeTuple(p, d), p)
                     /\ \E exact_field_data \in
                                FindFieldResults(_approx_trace_field_gens, p, d) :
                            /\ trace_field_attempt(p, d, exact_field_data)
                            /\ IF exact_field_data = None
                               THEN /\ UNCHANGED <<_quaternion_algebra,
                                                   _quaternion_algebra_prec_record>>
                                    /\ last' = Report("quaternion_algebra", None, 1,
                                                      trace_field_writes(exact_field_data))
                               ELSE /\ InBounds(_quaternion_algebra_prec_record, p, p)
                                    /\ \E first_entry \in ExpressResults,
                                          second_entry \in ExpressResults,
                                          epsilon_coefficient \in EpsilonCoefficients :
                                         /\ quaternion_algebra_attempt(
                                                p, exact_field_data.field,
                                                first_entry, second_entry)
                                         /\ last' = Looped(Report(
                                                "quaternion_algebra",
                                                IF first_entry = None \/ second_entry = None
                                                THEN None ELSE _quaternion_algebra', 1,
                                                [trace_field_writes(exact_field_data)
                                                    EXCEPT !["quaternion algebra"] = 1]),
                                                epsilon_coefficient)
                ELSE /\ InBounds(_quaternion_algebra_prec_record, p, p)
                     /\ UNCHANGED <<_trace_field, _trace_field_numerical_root,
                                    _trace_field_generators, _trace_field_prec_record,
                                    _invariant_trace_field,
                                    _invariant_trace_field_numerical_root,
                                    _invariant_trace_field_generators,
                                    _invariant_trace_field_prec_record>>
                     /\ \E first_entry \in ExpressResults, second_entry \in ExpressResults,
                        epsilon_coefficient \in EpsilonCoefficients :
                            /\ quaternion_algebra_attempt(p, _trace_field,
                                                          first_entry, second_entry)
                            /\ last' = Looped(Report("quaternion_algebra",
                                              IF first_entry = None \/ second_entry = None
                                              THEN None ELSE _quaternion_algebra',
                                              0, [NoWrites EXCEPT !["quaternion algebra"] = 1]),
                                              epsilon_coefficient)

\* Lines 545-576, with the invariant trace field `field` in hand.
invariant_quaternion_algebra_attempt(prec, field, first_entry, second_entry) ==
    /\ _invariant_quaternion_algebra_prec_record' =
           DictSet(_invariant_quaternion_algebra_prec_record, prec,
                   first_entry # None /\ second_entry # None)
    /\ _invariant_quaternion_algebra' =
           IF first_entry = None \/ second_entry = None
           THEN _invariant_quaternion_algebra
           ELSE QuaternionAlgebraNF(field, first_entry, second_entry, 2)

invariant_quaternion_algebra(prec) ==
    IF _invariant_quaternion_algebra # None /\ prec = None
    THEN /\ last' = CacheHit("invariant_quaternion_algebra", _invariant_quaternion_algebra)
         /\ UNCHANGED <<homology, caches, records, denoms, approx>>
    ELSE LET p == IF prec = None THEN next_prec_and_degree("iqa") ELSE prec.val
             \* invariant_trace_field(prec=p) takes its degree from the planner
             d == next_prec_and_degree("itf").degree
             key == PrecDegreeTuple(p, d)
         IN  /\ p <= MaxAttemptPrec
             /\ UNCHANGED <<homology, _trace_field, _trace_field_numerical_root,
                            _trace_field_generators, _trace_field_prec_record,
                            _quaternion_algebra, _quaternion_algebra_prec_record,
                            denoms, approx>>
             /\ IF _invariant_trace_field = None
                THEN /\ InBounds(_invariant_trace_field_prec_record, key, p)
                     /\ \E exact_field_data \in
                                FindFieldResults(_approx_invariant_trace_field_gens, p, d) :
                            /\ invariant_trace_field_attempt(p, d, exact_field_data)
                            /\ IF exact_field_data = None
                               THEN /\ UNCHANGED <<_invariant_quaternion_algebra,
                                                   _invariant_quaternion_algebra_prec_record>>
                                    /\ last' = Report(
                                           "invariant_quaternion_algebra", None, 1,
                                           [NoWrites EXCEPT !["invariant trace field"] = 1])
                               ELSE /\ InBounds(_invariant_quaternion_algebra_prec_record, p, p)
                                    /\ \E first_entry \in ExpressResults,
                                          second_entry \in ExpressResults,
                                          epsilon_coefficient \in EpsilonCoefficients :
                                         /\ invariant_quaternion_algebra_attempt(
                                                p, exact_field_data.field,
                                                first_entry, second_entry)
                                         /\ last' = Looped(Report(
                                                "invariant_quaternion_algebra",
                                                IF first_entry = None \/ second_entry = None
                                                THEN None ELSE _invariant_quaternion_algebra',
                                                1,
                                                [NoWrites EXCEPT
                                                    !["invariant trace field"] = 1,
                                                    !["invariant quaternion algebra"] = 1]),
                                                epsilon_coefficient)
                ELSE /\ InBounds(_invariant_quaternion_algebra_prec_record, p, p)
                     /\ UNCHANGED <<_invariant_trace_field,
                                    _invariant_trace_field_numerical_root,
                                    _invariant_trace_field_generators,
                                    _invariant_trace_field_prec_record>>
                     /\ \E first_entry \in ExpressResults, second_entry \in ExpressResults,
                        epsilon_coefficient \in EpsilonCoefficients :
                            /\ invariant_quaternion_algebra_attempt(
                                   p, _invariant_trace_field, first_entry, second_entry)
                            /\ last' = Looped(Report(
                                   "invariant_quaternion_algebra",
                                   IF first_entry = None \/ second_entry = None
                                   THEN None ELSE _invariant_quaternion_algebra',
                                   0, [NoWrites EXCEPT !["invariant quaternion algebra"] = 1]),
                                   epsilon_coefficient)

-----------------------------------------------------------------------------
(* denominators, lines 607-638. *)

\* The prime ideals dividing the denominator ideals of the exact generators.
PrimeIdealsOf(generators) == generators.den

\* misc_functions.find_prime_factors_in_a_set of the ideals' absolute norms.
ResidueCharacteristicsOf(prime_ideals) == {ideal.over : ideal \in prime_ideals}

\* denominators computing the set again on every call.
denominators_computed_on_every_call ==
    /\ UNCHANGED <<homology, caches, records, approx>>
    /\ IF _trace_field_generators = None
       THEN /\ last' = Report("denominators", None, 0, NoWrites)
            /\ UNCHANGED denoms
       ELSE LET prime_ideals == PrimeIdealsOf(_trace_field_generators)
            IN  /\ _denominators' = PySet(prime_ideals)
                /\ _denominator_residue_characteristics' =
                       PySet(ResidueCharacteristicsOf(prime_ideals))
                /\ last' = Report("denominators", PySet(prime_ideals), 0, NoWrites)

\* Lines 607-624.
denominators ==
    /\ UNCHANGED <<homology, caches, records, approx>>
    /\ IF _denominators # None
       THEN /\ last' = CacheHit("denominators", _denominators)
            /\ UNCHANGED denoms
       ELSE IF _trace_field_generators = None
       THEN /\ last' = Report("denominators", None, 0, NoWrites)
            /\ UNCHANGED denoms
       ELSE LET prime_ideals == PrimeIdealsOf(_trace_field_generators)
            IN  /\ _denominators' = PySet(prime_ideals)
                /\ _denominator_residue_characteristics' =
                       PySet(ResidueCharacteristicsOf(prime_ideals))
                /\ last' = Report("denominators", PySet(prime_ideals), 0, NoWrites)

\* Lines 627-638: the residue characteristics, after a call of denominators
\* if the denominators are None.
denominator_residue_characteristics ==
    /\ UNCHANGED <<homology, caches, records, approx>>
    /\ IF _denominators = None /\ _trace_field_generators # None
       THEN LET prime_ideals == PrimeIdealsOf(_trace_field_generators)
            IN  /\ _denominators' = PySet(prime_ideals)
                /\ _denominator_residue_characteristics' =
                       PySet(ResidueCharacteristicsOf(prime_ideals))
       ELSE IF _denominators # None /\ _denominator_residue_characteristics = None
       THEN /\ _denominator_residue_characteristics' =
                   PySet(ResidueCharacteristicsOf(_denominators.elements))
            /\ UNCHANGED _denominators
       ELSE UNCHANGED denoms
    /\ last' = Report("denominator_residue_characteristics",
                      _denominator_residue_characteristics', 0, NoWrites)

-----------------------------------------------------------------------------
(* is_arithmetic, lines 695-714. *)

\* is_arithmetic_unknown taking the empty set of denominators for missing
\* denominators.
is_arithmetic_unknown_when_integral ==
    \/ _invariant_trace_field = None
    \/ _invariant_quaternion_algebra = None
    \/ _denominators = None
    \/ _denominators = PySet({})

\* Lines 695-701: an invariant the test needs is not known.
is_arithmetic_unknown ==
    \/ _invariant_trace_field = None
    \/ _invariant_quaternion_algebra = None
    \/ _denominators = None

\* arithmetic without the test of the complex places.
arithmetic_with_any_complex_places(field, algebra, denominator_set) ==
    LET number_of_real_places == signature(field)[1]
        number_of_ramified_real_places == algebra.ramified_real_places
    IN  /\ number_of_ramified_real_places = number_of_real_places
        /\ denominator_set = PySet({})

\* Lines 703-714.
arithmetic(field, algebra, denominator_set) ==
    LET number_of_real_places == signature(field)[1]
        number_of_complex_places == signature(field)[2]
        number_of_ramified_real_places == algebra.ramified_real_places
    IN  /\ number_of_ramified_real_places = number_of_real_places
        /\ number_of_complex_places = 1
        /\ denominator_set = PySet({})

is_arithmetic ==
    /\ UNCHANGED <<homology, caches, records, denoms, approx>>
    /\ IF is_arithmetic_unknown
       THEN last' = Report("is_arithmetic", None, 0, NoWrites)
       ELSE last' = Report("is_arithmetic",
                           Bool(arithmetic(_invariant_trace_field,
                                           _invariant_quaternion_algebra, _denominators)),
                           0, NoWrites)

-----------------------------------------------------------------------------
(* The other manifold of a comparison. *)

\* A ManifoldNT on which compute_arithmetic_invariants has found everything
\* at the first coordinate: a manifold that is not a mod-2-homology sphere,
\* whose fields have the given degree, polynomial and embedding, and whose
\* Hilbert symbols have two negative entries or two positive ones.
ResolvedManifold(deg, poly, embedding, negative) ==
    LET gens == [tag |-> "approx gens", of |-> "trace field",
                 poly |-> poly, embedding |-> embedding]
        field == NumberField("trace field", deg, 1, poly, embedding)
        root == [tag |-> "root", deg |-> deg, of |-> "trace field",
                 embedding |-> embedding]
        exact == [tag |-> "exact gens", deg |-> deg, of |-> "trace field",
                  den |-> DenominatorsOfGens(deg)]
        entry == [tag |-> "element", negative |-> negative]
    IN  [homology |-> <<2, 0>>,
         _trace_field |-> field,
         _trace_field_numerical_root |-> root,
         _trace_field_generators |-> exact,
         _trace_field_prec_record |->
             DictSet(EmptyDict, PrecDegreeTuple(starting_prec, starting_degree), TRUE),
         _invariant_trace_field |-> field,
         _invariant_trace_field_numerical_root |-> root,
         _invariant_trace_field_generators |-> exact,
         _invariant_trace_field_prec_record |->
             DictSet(EmptyDict, PrecDegreeTuple(starting_prec, starting_degree), TRUE),
         _quaternion_algebra |-> QuaternionAlgebraNF(field, entry, entry, 1),
         _quaternion_algebra_prec_record |-> DictSet(EmptyDict, starting_prec, TRUE),
         _invariant_quaternion_algebra |-> QuaternionAlgebraNF(field, entry, entry, 2),
         _invariant_quaternion_algebra_prec_record |->
             DictSet(EmptyDict, starting_prec, TRUE),
         _denominators |-> PySet(DenominatorsOfGens(deg)),
         _denominator_residue_characteristics |->
             PySet(ResidueCharacteristicsOf(DenominatorsOfGens(deg))),
         _approx_trace_field_gens |-> gens,
         _approx_invariant_trace_field_gens |->
             [gens EXCEPT !.of = "invariant trace field"]]

\* The manifolds a manifold is compared with.
OtherManifolds ==
    { ResolvedManifold(2, "f", "z", FALSE),
      ResolvedManifold(2, "g", "z", FALSE),
      ResolvedManifold(2, "g", "z", TRUE),
      ResolvedManifold(2, "g", "conjugate of z", FALSE),
      ResolvedManifold(MaxFieldDegree, "f", "z", TRUE),
      ResolvedManifold(MaxFieldDegree, "g", "z", FALSE) }

\* other.next_prec_and_degree(name), lines 174-236 on the attributes of
\* `other`.
other_next_prec_and_degree(other, name) ==
    LET invariant == fixed_names[name]
        record == CASE invariant = "trace field" -> other._trace_field_prec_record
                    [] invariant = "invariant trace field" ->
                           other._invariant_trace_field_prec_record
                    [] invariant = "quaternion algebra" ->
                           other._quaternion_algebra_prec_record
                    [] invariant = "invariant quaternion algebra" ->
                           other._invariant_quaternion_algebra_prec_record
        sphere == \A i \in DOMAIN other.homology :
                      other.homology[i] # 0 /\ other.homology[i] % 2 # 0
        of_field(kind) ==
            LET rec == IF kind = "trace field"
                       THEN other._trace_field_prec_record
                       ELSE other._invariant_trace_field_prec_record
                failed == failed_newpair(rec)
            IN  IF DOMAIN rec = {}
                THEN starting_newpair
                ELSE IF KeysWith(rec, TRUE) # {}
                THEN successful_newpair(rec)
                ELSE IF kind = "trace field" /\ other._invariant_trace_field # None
                THEN IF sphere
                     THEN PrecDegreeTuple(failed.prec, other._invariant_trace_field.deg)
                     ELSE PrecDegreeTuple(
                              failed.prec,
                              implied_new_deg(failed.prec, other._invariant_trace_field.deg))
                ELSE IF kind = "invariant trace field" /\ other._trace_field # None
                THEN PrecDegreeTuple(failed.prec, other._trace_field.deg)
                ELSE failed
    IN  IF invariant \in {"trace field", "invariant trace field"}
        THEN of_field(invariant)
        ELSE LET field_prec ==
                     of_field(IF invariant = "quaternion algebra"
                              THEN "trace field" ELSE "invariant trace field").prec
                 largest_failed_prec == SetMax(KeysWith(record, FALSE))
             IN  IF DOMAIN record = {}
                 THEN field_prec
                 ELSE IF KeysWith(record, TRUE) # {}
                 THEN SetMin(KeysWith(record, TRUE))
                 ELSE IF largest_failed_prec + prec_increment >= field_prec
                 THEN largest_failed_prec + prec_increment
                 ELSE field_prec

-----------------------------------------------------------------------------
(* The collaborators of the comparisons. *)

\* field1 == field2: the same polynomial and the same embedding.
same_field(field1, field2) ==
    /\ field1.deg = field2.deg
    /\ field1.complex_places = field2.complex_places
    /\ field1.poly = field2.poly
    /\ field1.embedding = field2.embedding

\* field1.is_isomorphic(field2).
is_isomorphic(field1, field2) ==
    /\ field1.deg = field2.deg
    /\ field1.complex_places = field2.complex_places

\* field_isomorphisms.same_subfield_of_CC of two fields: isomorphic fields
\* with the same image in CC, or with conjugate images when that is allowed.
same_subfield_of_CC(field1, field2, up_to_conjugation) ==
    /\ is_isomorphic(field1, field2)
    /\ up_to_conjugation \/ field1.embedding = field2.embedding

\* algebra1.is_isomorphic(algebra2), for algebras over one field: the same
\* ramification.
is_isomorphic_algebra(algebra1, algebra2) ==
    /\ algebra1.ramified_real_places = algebra2.ramified_real_places
    /\ algebra1.ramified_residue_characteristics =
           algebra2.ramified_residue_characteristics

\* The collaborators a comparison of algebras called.
Collaborators(express, special_isomorphism, conjugate_invariants) ==
    [express |-> express, special_isomorphism |-> special_isomorphism,
     _conjugate_invariants |-> conjugate_invariants]

\* A comparison's result with the collaborators it called.
Compared(value, collaborators) == [value |-> value, collaborators |-> collaborators]

\* misc_functions.conjugate_field: the generators under the conjugate
\* embedding.
conjugate_field(approx_gens) ==
    [approx_gens EXCEPT !.embedding = IF @ = "z" THEN "conjugate of z" ELSE "z"]

\* Lines 1005-1022: the entry of d for a field that is known, from the
\* conjugated generators.
ConjugateEntry(field, old_approx_gens) ==
    LET new_approx_gens == conjugate_field(old_approx_gens)
    IN  [tag |-> "dict",
         keys |-> {"approx gens", "field", "numerical root", "exact gens"},
         approx_gens |-> new_approx_gens,
         field |-> [field EXCEPT !.embedding = new_approx_gens.embedding],
         numerical_root |-> [tag |-> "root", deg |-> field.deg, of |-> field.of,
                             embedding |-> new_approx_gens.embedding]]

\* Lines 998-1043 on the attributes of a manifold.  Line 1036 reads
\* self._quaterion_algebra, which no object has: AttributeError as soon as an
\* algebra is known.  Without algebras the loop of line 1040 runs over the
\* denominators: TypeError if they are None, and d["denominators"] is the
\* set made from the last ideal, None for no ideal.
_conjugate_invariants(other) ==
    IF other._quaternion_algebra # None \/ other._invariant_quaternion_algebra # None
    THEN Raised("AttributeError")
    ELSE IF other._denominators = None
    THEN Raised("TypeError")
    ELSE [tag |-> "dict",
          keys |-> {"trace field", "quaternion algebra", "invariant trace field",
                    "invariant quaternion algebra", "denominators"},
          field_keys |-> {"approx gens", "field", "numerical root", "exact gens"},
          trace_field |->
              IF other._trace_field # None
              THEN ConjugateEntry(other._trace_field, other._approx_trace_field_gens)
              ELSE None,
          invariant_trace_field |->
              IF other._invariant_trace_field # None
              THEN ConjugateEntry(other._invariant_trace_field,
                                  other._approx_invariant_trace_field_gens)
              ELSE None,
          quaternion_algebra |-> None,
          invariant_quaternion_algebra |-> None,
          denominators |-> IF other._denominators.elements = {} THEN None
                           ELSE other._denominators]

\* The attributes of self.
Self ==
    [homology |-> homology,
     _trace_field |-> _trace_field,
     _trace_field_numerical_root |-> _trace_field_numerical_root,
     _trace_field_generators |-> _trace_field_generators,
     _trace_field_prec_record |-> _trace_field_prec_record,
     _invariant_trace_field |-> _invariant_trace_field,
     _invariant_trace_field_numerical_root |-> _invariant_trace_field_numerical_root,
     _invariant_trace_field_generators |-> _invariant_trace_field_generators,
     _invariant_trace_field_prec_record |-> _invariant_trace_field_prec_record,
     _quaternion_algebra |-> _quaternion_algebra,
     _quaternion_algebra_prec_record |-> _quaternion_algebra_prec_record,
     _invariant_quaternion_algebra |-> _invariant_quaternion_algebra,
     _invariant_quaternion_algebra_prec_record |->
         _invariant_quaternion_algebra_prec_record,
     _denominators |-> _denominators,
     _denominator_residue_characteristics |-> _denominator_residue_characteristics,
     _approx_trace_field_gens |-> _approx_trace_field_gens,
     _approx_invariant_trace_field_gens |-> _approx_invariant_trace_field_gens]

\* self._conjugate_invariants() conjugating the generators of self in place.
conjugate_invariants_in_place ==
    /\ last' = Report("_conjugate_invariants", _conjugate_invariants(Self), 0, NoWrites)
    /\ _approx_trace_field_gens' = conjugate_field(_approx_trace_field_gens)
    /\ _approx_invariant_trace_field_gens' =
           conjugate_field(_approx_invariant_trace_field_gens)
    /\ UNCHANGED <<homology, caches, records, denoms>>

\* self._conjugate_invariants(), lines 990-1043: it reads the attributes of
\* self and assigns none.
conjugate_invariants_of_self ==
    /\ last' = Report("_conjugate_invariants", _conjugate_invariants(Self), 0, NoWrites)
    /\ UNCHANGED <<homology, caches, records, denoms, approx>>

-----------------------------------------------------------------------------
(* The comparisons, lines 810-996.  A comparison calls the accessors of     *)
(* self one after the other; `call` holds its position between two of them, *)
(* and `last` what the accessor it has just called returned.                *)

NoCollaborators == Collaborators(0, 0, 0)

\* The position of a comparison: the method the caller called, the other
\* manifold, the line reached, the _invariant_qa of the comparison of
\* algebras in progress, its self_field, the entries of arith_dict so far and
\* the collaborators the last comparison of algebras called.
Frame(op, other, at, _invariant_qa, self_field, arith_dict, collaborators) ==
    [op |-> op, other |-> other, at |-> at, _invariant_qa |-> _invariant_qa,
     self_field |-> self_field, arith_dict |-> arith_dict,
     collaborators |-> collaborators]

\* The dict a comparison returns.
Dict(arith_dict) == [tag |-> "dict", items |-> arith_dict]

\* The comparison goes on with a call of an accessor of self.
Continue(accessor, frame) ==
    accessor /\ call' = frame /\ UNCHANGED <<caller, comparisons, flight>>

\* The caller starts a comparison with a call of an accessor of self.
Start(accessor, frame) ==
    /\ comparing
    /\ call = None
    /\ comparisons < MaxComparisons
    /\ comparisons' = comparisons + 1
    /\ accessor /\ call' = frame /\ UNCHANGED <<caller, flight>>

\* The comparison returns, or raises, without another call.
Return(value, collaborators) ==
    /\ call' = None
    /\ last' = [Report(call.op, value, 0, NoWrites) EXCEPT !.collaborators = collaborators]
    /\ UNCHANGED <<homology, caches, records, denoms, approx, caller, comparisons,
                   flight>>

\* same_subfield_of_CC(self_field, other_field) as lines 973-978 call it:
\* what it does with a field that is None is the collaborator's business.
SubfieldOutcomes(self_field, other_field) ==
    IF self_field = None
    THEN {Raised("AttributeError"), Bool(FALSE)}
    ELSE {Bool(same_subfield_of_CC(self_field, other_field, FALSE))}

\* AlgebraOutcomes with the ramification compared after the isomorphism of
\* the fields is constructed.
AlgebraOutcomes_constructing_first(self_field, self_qa, other, _invariant_qa) ==
    LET other_field == IF _invariant_qa THEN other._invariant_trace_field
                       ELSE other._trace_field
        other_qa == IF _invariant_qa THEN other._invariant_quaternion_algebra
                    ELSE other._quaternion_algebra
        new_QA == [other_qa EXCEPT !.field = self_field]
    IN  IF None \in {self_field, other_field, self_qa, other_qa}
        THEN {Compared(Raised("RuntimeError"), NoCollaborators)}
        ELSE IF same_field(self_field, other_field)
        THEN {Compared(Bool(is_isomorphic_algebra(self_qa, other_qa)), NoCollaborators)}
        ELSE IF ~same_subfield_of_CC(self_field, other_field, TRUE)
        THEN {Compared(Bool(FALSE), NoCollaborators)}
        ELSE IF self_qa.ramified_real_places # other_qa.ramified_real_places
        THEN {Compared(Bool(FALSE), Collaborators(2, 1, 0))}
        ELSE IF self_qa.ramified_residue_characteristics #
                    other_qa.ramified_residue_characteristics
        THEN {Compared(Bool(FALSE), Collaborators(2, 1, 0))}
        ELSE IF ~same_subfield_of_CC(self_field, other_field, FALSE)
        THEN LET conjugate_invariants == _conjugate_invariants(other)
             IN  IF conjugate_invariants.tag = "raised"
                 THEN {Compared(conjugate_invariants, Collaborators(0, 0, 1))}
                 ELSE IF "approx_gens" \notin conjugate_invariants.field_keys
                 THEN {Compared(Raised("KeyError"), Collaborators(0, 0, 1))}
                 ELSE {Compared(Bool(is_isomorphic_algebra(self_qa, new_QA)),
                                Collaborators(2, 1, 1))}
        ELSE {Compared(Bool(is_isomorphic_algebra(self_qa, new_QA)),
                       Collaborators(2, 1, 0)),
              Compared(Raised("error of special_isomorphism"), Collaborators(2, 1, 0))}

\* Lines 827-889: the outcomes of a comparison of algebras once the four
\* accessors have returned.
AlgebraOutcomes(self_field, self_qa, other, _invariant_qa) ==
    LET other_field == IF _invariant_qa THEN other._invariant_trace_field
                       ELSE other._trace_field
        other_qa == IF _invariant_qa THEN other._invariant_quaternion_algebra
                    ELSE other._quaternion_algebra
        new_QA == [other_qa EXCEPT !.field = self_field]
    IN  IF None \in {self_field, other_field, self_qa, other_qa}
        THEN {Compared(Raised("RuntimeError"), NoCollaborators)}
        ELSE IF same_field(self_field, other_field)
        THEN {Compared(Bool(is_isomorphic_algebra(self_qa, other_qa)), NoCollaborators)}
        ELSE IF ~same_subfield_of_CC(self_field, other_field, TRUE)
        THEN {Compared(Bool(FALSE), NoCollaborators)}
        ELSE IF self_qa.ramified_real_places # other_qa.ramified_real_places
        THEN {Compared(Bool(FALSE), NoCollaborators)}
        ELSE IF self_qa.ramified_residue_characteristics #
                    other_qa.ramified_residue_characteristics
        THEN {Compared(Bool(FALSE), NoCollaborators)}
        ELSE IF ~same_subfield_of_CC(self_field, other_field, FALSE)
        THEN LET conjugate_invariants == _conjugate_invariants(other)
             IN  IF conjugate_invariants.tag = "raised"
                 THEN {Compared(conjugate_invariants, Collaborators(0, 0, 1))}
                 ELSE IF "approx_gens" \notin conjugate_invariants.field_keys
                 THEN {Compared(Raised("KeyError"), Collaborators(0, 0, 1))}
                 ELSE {Compared(Bool(is_isomorphic_algebra(self_qa, new_QA)),
                                Collaborators(2, 1, 1))}
        ELSE {Compared(Bool(is_isomorphic_algebra(self_qa, new_QA)),
                       Collaborators(2, 1, 0)),
              Compared(Raised("error of special_isomorphism"), Collaborators(2, 1, 0))}

\* a < b for two PrecDegreeTuples, as Python orders namedtuples: by the
\* precision, and by the degree when the precisions are equal.
tuple_less(a, b) ==
    \/ a.prec < b.prec
    \/ a.prec = b.prec /\ a.degree < b.degree

\* max(a, b) of two PrecDegreeTuples: b when a < b, else a.
max_of_tuples(a, b) == IF tuple_less(a, b) THEN b ELSE a

\* Lines 838-848: the prec of the comparison of algebras, the larger of two
\* integers.
isomorphic_quaternion_algebras_prec(other, _invariant_qa) ==
    LET name == IF _invariant_qa THEN "iqa" ELSE "qa"
    IN  Given(SetMax({next_prec_and_degree(name),
                      other_next_prec_and_degree(other, name)}))

\* Lines 911-914: the prec of the comparison of denominators, the larger of
\* two PrecDegreeTuples.
same_denominators_prec(other) ==
    max_of_tuples(next_prec_and_degree("tf"), other_next_prec_and_degree(other, "tf"))

\* Lines 901-932: the outcomes of the comparison of denominators once the
\* trace field and the denominators are known.  Line 911 makes prec a
\* PrecDegreeTuple; what express does with a prec that is no integer is the
\* collaborator's business.
DenominatorOutcomes(other) ==
    IF _denominator_residue_characteristics # other._denominator_residue_characteristics
    THEN {Bool(FALSE)}
    ELSE IF same_field(_trace_field, other._trace_field)
    THEN {Bool(_denominators = other._denominators)}
    ELSE IF ~is_isomorphic(_trace_field, other._trace_field)
    THEN {Bool(FALSE)}
    ELSE LET new_denoms == other._denominators
             prec == same_denominators_prec(other)
         IN  IF DOMAIN prec = DOMAIN PrecDegreeTuple(0, 0)
             THEN {Bool(_denominators = new_denoms), Raised("TypeError")}
             ELSE {Bool(_denominators = new_denoms)}

\* Lines 971-974: compare_arithmetic_invariants calls self.trace_field().
compare_arithmetic_invariants(other) ==
    Start(trace_field(None, None),
          Frame("compare_arithmetic_invariants", other, "line 973", FALSE, None,
                EmptyDict, NoCollaborators))

\* Line 987: has_same_arithmetic_invariants calls
\* compare_arithmetic_invariants.
has_same_arithmetic_invariants(other) ==
    Start(trace_field(None, None),
          Frame("has_same_arithmetic_invariants", other, "line 973", FALSE, None,
                EmptyDict, NoCollaborators))

\* Lines 811-813: the comparison of algebras calls the accessor of its field.
_isomorphic_quaternion_algebras(other, _invariant_qa) ==
    Start(IF _invariant_qa THEN invariant_trace_field(None, None)
          ELSE trace_field(None, None),
          Frame("_isomorphic_quaternion_algebras", other, "line 811",
                _invariant_qa, None, EmptyDict, NoCollaborators))

\* Line 897: the comparison of denominators calls self.trace_field().
_same_denominators(other) ==
    Start(trace_field(None, None),
          Frame("_same_denominators", other, "line 897", FALSE, None,
                EmptyDict, NoCollaborators))

\* Lines 973-978: the trace fields are compared and
\* self.invariant_trace_field() is called.
trace_fields_compared ==
    /\ call # None
    /\ call.at = "line 973"
    /\ \E outcome \in SubfieldOutcomes(last.ret, call.other._trace_field) :
           IF outcome.tag = "raised"
           THEN Return(outcome, NoCollaborators)
           ELSE Continue(invariant_trace_field(None, None),
                         [call EXCEPT !.at = "line 976",
                                      !.arith_dict =
                                          DictSet(@, "trace field", outcome.val)])

\* Lines 976-979: the invariant trace fields are compared and the comparison
\* of the quaternion algebras starts.
invariant_trace_fields_compared ==
    /\ call # None
    /\ call.at = "line 976"
    /\ \E outcome \in SubfieldOutcomes(last.ret, call.other._invariant_trace_field) :
           IF outcome.tag = "raised"
           THEN Return(outcome, NoCollaborators)
           ELSE Continue(trace_field(None, None),
                         [call EXCEPT !.at = "line 811",
                                      !._invariant_qa = FALSE,
                                      !.arith_dict =
                                          DictSet(@, "invariant trace field", outcome.val)])

\* Lines 811-822: self_field is what the accessor returned; the accessor of
\* the algebra is called.
algebras_field_returned ==
    /\ call # None
    /\ call.at = "line 811"
    /\ Continue(IF call._invariant_qa THEN invariant_quaternion_algebra(None)
                ELSE quaternion_algebra(None),
                [call EXCEPT !.at = "line 817", !.self_field = last.ret])

\* What a comparison returns to its caller: the dict, or whether False is
\* absent from its values (line 988).
Returned(op, arith_dict) ==
    IF op = "has_same_arithmetic_invariants"
    THEN Bool(\A key \in DOMAIN arith_dict : arith_dict[key])
    ELSE Dict(arith_dict)

\* Lines 827-889 and 979-983: the algebras are compared; within
\* compare_arithmetic_invariants the next comparison starts.
algebras_compared ==
    /\ call # None
    /\ call.at = "line 817"
    /\ \E outcome \in AlgebraOutcomes(call.self_field, last.ret, call.other,
                                      call._invariant_qa) :
           IF outcome.value.tag = "raised" \/ call.op = "_isomorphic_quaternion_algebras"
           THEN Return(outcome.value, outcome.collaborators)
           ELSE LET key == IF call._invariant_qa THEN "invariant quaternion algebra"
                           ELSE "quaternion algebra"
                    frame == [call EXCEPT !.arith_dict = DictSet(@, key, outcome.value.val),
                                          !.collaborators = outcome.collaborators]
                IN  IF call._invariant_qa
                    THEN Continue(trace_field(None, None),
                                  [frame EXCEPT !.at = "line 897"])
                    ELSE Continue(invariant_trace_field(None, None),
                                  [frame EXCEPT !.at = "line 811",
                                                !._invariant_qa = TRUE])

\* Lines 897-899: without a trace field the comparison raises; with one,
\* self.denominators() is called.
denominators_trace_field_returned ==
    /\ call # None
    /\ call.at = "line 897"
    /\ IF last.ret = None \/ call.other._trace_field = None
       THEN Return(Raised("RuntimeError"), NoCollaborators)
       ELSE Continue(denominators, [call EXCEPT !.at = "line 899"])

\* Lines 899-932 and 983-988: the denominators are compared and the
\* comparison returns.
denominators_compared ==
    /\ call # None
    /\ call.at = "line 899"
    /\ IF last.ret = None \/ call.other._denominators = None
       THEN Return(Raised("RuntimeError"), NoCollaborators)
       ELSE \E outcome \in DenominatorOutcomes(call.other) :
                IF outcome.tag = "raised"
                THEN Return(outcome, NoCollaborators)
                ELSE IF call.op = "_same_denominators"
                THEN Return(outcome, NoCollaborators)
                ELSE Return(Returned(call.op,
                                     DictSet(call.arith_dict, "denominators", outcome.val)),
                            call.collaborators)

-----------------------------------------------------------------------------
(* compute_arithmetic_invariants, lines 640-664: six planner calls, then    *)
(* the four accessors and denominators, one after the other.                *)

\* Lines 651-658: the coordinates of the four attempts, from the arguments
\* or from the planner.
PlannedCoordinates(prec, degree) ==
    [tf_prec |-> IF prec = None THEN next_prec_and_degree("tf").prec ELSE prec.val,
     tf_degree |-> IF degree = None THEN next_prec_and_degree("tf").degree
                   ELSE degree.val,
     itf_prec |-> IF prec = None THEN next_prec_and_degree("itf").prec ELSE prec.val,
     itf_degree |-> IF degree = None THEN next_prec_and_degree("itf").degree
                    ELSE degree.val,
     qa_prec |-> IF prec = None THEN next_prec_and_degree("qa") ELSE prec.val,
     iqa_prec |-> IF prec = None THEN next_prec_and_degree("iqa") ELSE prec.val]

\* Lines 651-659: the coordinates are planned and self.trace_field is
\* called.
compute_arithmetic_invariants(prec, degree) ==
    /\ computing
    /\ call = None
    /\ comparisons < MaxComputations
    /\ comparisons' = comparisons + 1
    /\ LET planned == PlannedCoordinates(prec, degree)
       IN  /\ trace_field(Given(planned.tf_prec), Given(planned.tf_degree))
           /\ call' = [op |-> "compute_arithmetic_invariants", at |-> "line 660",
                       planned |-> planned]
    /\ UNCHANGED <<caller, flight>>

\* Line 660.
compute_invariant_trace_field ==
    /\ call # None
    /\ call.at = "line 660"
    /\ Continue(invariant_trace_field(Given(call.planned.itf_prec),
                                      Given(call.planned.itf_degree)),
                [call EXCEPT !.at = "line 661"])

\* Line 661.
compute_quaternion_algebra ==
    /\ call # None
    /\ call.at = "line 661"
    /\ Continue(quaternion_algebra(Given(call.planned.qa_prec)),
                [call EXCEPT !.at = "line 662"])

\* Line 662.
compute_invariant_quaternion_algebra ==
    /\ call # None
    /\ call.at = "line 662"
    /\ Continue(invariant_quaternion_algebra(Given(call.planned.iqa_prec)),
                [call EXCEPT !.at = "line 663"])

\* compute_arithmetic_invariants never calling denominators.
trace_field_generators_ignored == FALSE

\* Line 663: the test of self._trace_field_generators.
trace_field_generators_known == _trace_field_generators # None

\* Lines 663-664: denominators is called if the generators are known.
compute_denominators ==
    /\ call # None
    /\ call.at = "line 663"
    /\ IF trace_field_generators_known
       THEN Continue(denominators, [call EXCEPT !.at = "line 664"])
       ELSE Return(None, None)

\* compute_arithmetic_invariants returns after denominators.
compute_returned ==
    /\ call # None
    /\ call.at = "line 664"
    /\ Return(None, None)

-----------------------------------------------------------------------------
(* dehn_fill, lines 765-808. *)

\* delete_arithmetic_invariants keeping the invariant quaternion algebra's
\* record.
delete_arithmetic_invariants_keeping_record ==
    /\ _trace_field' = None
    /\ _trace_field_numerical_root' = None
    /\ _trace_field_generators' = None
    /\ _trace_field_prec_record' = EmptyDict
    /\ _invariant_trace_field' = None
    /\ _invariant_trace_field_numerical_root' = None
    /\ _invariant_trace_field_generators' = None
    /\ _invariant_trace_field_prec_record' = EmptyDict
    /\ _quaternion_algebra' = None
    /\ _quaternion_algebra_prec_record' = EmptyDict
    /\ _invariant_quaternion_algebra' = None
    /\ UNCHANGED _invariant_quaternion_algebra_prec_record
    /\ _denominators' = None
    /\ _denominator_residue_characteristics' = None
    /\ _approx_trace_field_gens' = TraceFieldGens
    /\ _approx_invariant_trace_field_gens' = InvariantTraceFieldGens

\* Lines 775-798.
delete_arithmetic_invariants ==
    /\ _trace_field' = None
    /\ _trace_field_numerical_root' = None
    /\ _trace_field_generators' = None
    /\ _trace_field_prec_record' = EmptyDict
    /\ _invariant_trace_field' = None
    /\ _invariant_trace_field_numerical_root' = None
    /\ _invariant_trace_field_generators' = None
    /\ _invariant_trace_field_prec_record' = EmptyDict
    /\ _quaternion_algebra' = None
    /\ _quaternion_algebra_prec_record' = EmptyDict
    /\ _invariant_quaternion_algebra' = None
    /\ _invariant_quaternion_algebra_prec_record' = EmptyDict
    /\ _denominators' = None
    /\ _denominator_residue_characteristics' = None
    /\ _approx_trace_field_gens' = TraceFieldGens
    /\ _approx_invariant_trace_field_gens' = InvariantTraceFieldGens

\* The filling decides the homology of the filled manifold.
dehn_fill(filled_homology) ==
    /\ homology' = filled_homology
    /\ delete_arithmetic_invariants
    /\ last' = Report("dehn_fill", None, 0, NoWrites)

-----------------------------------------------------------------------------

\* A call made by the caller of the object.
Call(method) ==
    /\ ~comparing
    /\ ~computing
    /\ method
    /\ UNCHANGED <<caller, comparisons, call, flight>>

Next ==
    \/ \E prec \in PrecArgs : \E degree \in DegreeArgs(prec) : Call(trace_field(prec, degree))
    \/ \E prec \in PrecArgs : \E degree \in DegreeArgs(prec) :
           Call(invariant_trace_field(prec, degree))
    \/ \E prec \in PrecArgs : Call(quaternion_algebra(prec))
    \/ \E prec \in PrecArgs : Call(invariant_quaternion_algebra(prec))
    \/ Call(denominators)
    \/ Call(denominator_residue_characteristics)
    \/ Call(is_arithmetic)
    \/ \E filled_homology \in Homologies : Call(dehn_fill(filled_homology))
    \/ Call(conjugate_invariants_of_self)
    \/ \E other \in OtherManifolds : compare_arithmetic_invariants(other)
    \/ \E other \in OtherManifolds : has_same_arithmetic_invariants(other)
    \/ \E other \in OtherManifolds : \E _invariant_qa \in BOOLEAN :
           _isomorphic_quaternion_algebras(other, _invariant_qa)
    \/ \E other \in OtherManifolds : _same_denominators(other)
    \/ trace_fields_compared
    \/ invariant_trace_fields_compared
    \/ algebras_field_returned
    \/ algebras_compared
    \/ denominators_trace_field_returned
    \/ denominators_compared
    \/ \E prec \in PrecArgs : \E degree \in DegreeArgs(prec) :
           compute_arithmetic_invariants(prec, degree)
    \/ compute_invariant_trace_field
    \/ compute_quaternion_algebra
    \/ compute_invariant_quaternion_algebra
    \/ compute_denominators
    \/ compute_returned

Spec == Init /\ [][Next]_vars

-----------------------------------------------------------------------------
(* A caller who passes precisions and degrees and repeats them. *)

InitReattempting ==
    /\ Constructed
    /\ overrides
    /\ ~computing
    /\ interleaving = FALSE
    /\ reattempting = TRUE

NextReattempting ==
    \/ \E prec \in PrecArgs : \E degree \in DegreeArgs(prec) : Call(trace_field(prec, degree))
    \/ \E prec \in PrecArgs : \E degree \in DegreeArgs(prec) :
           Call(invariant_trace_field(prec, degree))
    \/ \E prec \in PrecArgs : Call(quaternion_algebra(prec))
    \/ \E prec \in PrecArgs : Call(invariant_quaternion_algebra(prec))
    \/ \E filled_homology \in Homologies : Call(dehn_fill(filled_homology))

SpecReattempting == InitReattempting /\ [][NextReattempting]_vars

-----------------------------------------------------------------------------
(* A filling that comes while an attempt waits for find_field. *)

\* An attempt of trace_field or invariant_trace_field between its call of
\* find_field and the write of the result: the accessor, the coordinate, the
\* result of the search on the generators of the time, whether a filling has
\* reset the object since, and whether a search has started since the last
\* reset.
Flight(at, op, prec, degree, exact_field_data, filled, searched) ==
    [at |-> at, op |-> op, prec |-> prec, degree |-> degree,
     exact_field_data |-> exact_field_data, filled |-> filled, searched |-> searched]

\* An attempt waits for its search.
searching == flight # None /\ flight.at = "find_field"

\* A search has started since the last reset.
searched_since_reset == flight # None /\ flight.searched

\* Lines 314-322 of trace_field: the answer from the cache, or the coordinate
\* and the call of find_field.
trace_field_search(prec, degree) ==
    /\ ~searching
    /\ IF trace_field_cached(prec, degree)
       THEN /\ last' = CacheHit("trace_field", _trace_field)
            /\ UNCHANGED flight
       ELSE LET p == IF prec = None THEN next_prec_and_degree("tf").prec ELSE prec.val
                d == IF degree = None THEN next_prec_and_degree("tf").degree
                     ELSE degree.val
            IN  /\ InBounds(_trace_field_prec_record, PrecDegreeTuple(p, d), p)
                /\ \E exact_field_data \in
                           FindFieldResults(_approx_trace_field_gens, p, d) :
                       flight' = Flight("find_field", "trace_field", p, d,
                                        exact_field_data, FALSE, TRUE)
                /\ UNCHANGED last
    /\ UNCHANGED <<homology, caches, records, denoms, approx, caller, comparisons, call>>

\* Lines 372-377 of invariant_trace_field, likewise.
invariant_trace_field_search(prec, degree) ==
    /\ ~searching
    /\ IF invariant_trace_field_cached(prec, degree)
       THEN /\ last' = CacheHit("invariant_trace_field", _invariant_trace_field)
            /\ UNCHANGED flight
       ELSE LET p == IF prec = None THEN next_prec_and_degree("itf").prec ELSE prec.val
                d == IF degree = None THEN next_prec_and_degree("itf").degree
                     ELSE degree.val
            IN  /\ InBounds(_invariant_trace_field_prec_record, PrecDegreeTuple(p, d), p)
                /\ \E exact_field_data \in
                           FindFieldResults(_approx_invariant_trace_field_gens, p, d) :
                       flight' = Flight("find_field", "invariant_trace_field", p, d,
                                        exact_field_data, FALSE, TRUE)
                /\ UNCHANGED last
    /\ UNCHANGED <<homology, caches, records, denoms, approx, caller, comparisons, call>>

\* A write that gives up the result of a search a reset has overtaken.
search_written_unless_reset ==
    /\ searching
    /\ flight' = [flight EXCEPT !.at = "written"]
    /\ LET exact_field_data == flight.exact_field_data
           ret == IF exact_field_data # None THEN exact_field_data.field ELSE None
       IN  IF flight.filled
           THEN /\ last' = Report(flight.op, None, 1, NoWrites)
                /\ UNCHANGED <<caches, records>>
           ELSE IF flight.op = "trace_field"
           THEN /\ trace_field_attempt(flight.prec, flight.degree, exact_field_data)
                /\ last' = Report("trace_field", ret, 1,
                                  trace_field_writes(exact_field_data))
                /\ UNCHANGED <<_quaternion_algebra, _quaternion_algebra_prec_record,
                               _invariant_quaternion_algebra,
                               _invariant_quaternion_algebra_prec_record>>
           ELSE /\ invariant_trace_field_attempt(flight.prec, flight.degree,
                                                 exact_field_data)
                /\ last' = Report("invariant_trace_field", ret, 1,
                                  [NoWrites EXCEPT !["invariant trace field"] = 1])
                /\ UNCHANGED <<_trace_field, _trace_field_numerical_root,
                               _trace_field_generators, _trace_field_prec_record,
                               _quaternion_algebra, _quaternion_algebra_prec_record,
                               _invariant_quaternion_algebra,
                               _invariant_quaternion_algebra_prec_record>>
    /\ UNCHANGED <<homology, denoms, approx, caller, comparisons, call>>

\* Lines 325-341 of trace_field and 378-390 of invariant_trace_field: the
\* result of the search goes into the record and the caches as they are when
\* find_field returns.
search_written ==
    /\ searching
    /\ flight' = [flight EXCEPT !.at = "written"]
    /\ LET exact_field_data == flight.exact_field_data
           ret == IF exact_field_data # None THEN exact_field_data.field ELSE None
       IN  IF flight.op = "trace_field"
           THEN /\ trace_field_attempt(flight.prec, flight.degree, exact_field_data)
                /\ last' = Report("trace_field", ret, 1,
                                  trace_field_writes(exact_field_data))
                /\ UNCHANGED <<_quaternion_algebra, _quaternion_algebra_prec_record,
                               _invariant_quaternion_algebra,
                               _invariant_quaternion_algebra_prec_record>>
           ELSE /\ invariant_trace_field_attempt(flight.prec, flight.degree,
                                                 exact_field_data)
                /\ last' = Report("invariant_trace_field", ret, 1,
                                  [NoWrites EXCEPT !["invariant trace field"] = 1])
                /\ UNCHANGED <<_trace_field, _trace_field_numerical_root,
                               _trace_field_generators, _trace_field_prec_record,
                               _quaternion_algebra, _quaternion_algebra_prec_record,
                               _invariant_quaternion_algebra,
                               _invariant_quaternion_algebra_prec_record>>
    /\ UNCHANGED <<homology, denoms, approx, caller, comparisons, call>>

\* dehn_fill from a second caller: one call at a time it waits for the write
\* of the attempt, interleaved it comes between the search and the write.
dehn_fill_interleaved(filled_homology) ==
    /\ searching => interleaving
    /\ dehn_fill(filled_homology)
    /\ flight' = IF flight = None THEN None
                 ELSE [flight EXCEPT !.filled = searching, !.searched = FALSE]
    /\ UNCHANGED <<caller, comparisons, call>>

\* The object with a caller who makes one call at a time, or with two whose
\* calls interleave.
InitInterleaved ==
    /\ Constructed
    /\ ~comparing
    /\ ~computing
    /\ interleaving \in BOOLEAN
    /\ reattempting = FALSE

NextInterleaved ==
    \/ \E prec \in PrecArgs : \E degree \in DegreeArgs(prec) :
           trace_field_search(prec, degree)
    \/ \E prec \in PrecArgs : \E degree \in DegreeArgs(prec) :
           invariant_trace_field_search(prec, degree)
    \/ search_written
    \/ \E filled_homology \in Homologies : dehn_fill_interleaved(filled_homology)

SpecInterleaved == InitInterleaved /\ [][NextInterleaved]_vars

-----------------------------------------------------------------------------
(* Properties. *)

FieldKinds == {"trace field", "invariant trace field"}

ResolutionMethods == {"trace_field", "invariant_trace_field", "quaternion_algebra",
                      "invariant_quaternion_algebra"}

MethodOf(kind) ==
    IF kind = "trace field" THEN "trace_field" ELSE "invariant_trace_field"

\* The cached field of the other field kind.
OtherField(kind) ==
    IF kind = "trace field" THEN _invariant_trace_field ELSE _trace_field

\* C1: for a field kind whose record holds a success, next_prec_and_degree
\* returns the least successful precision and the least successful degree,
\* each taken over all the successes on its own, whatever failures the record
\* also holds and whether or not the other field is resolved.
C1_SuccessfulMinimaIndependent ==
    \A kind \in FieldKinds :
        LET succ == KeysWith(_dict_of_prec_records(kind), TRUE)
            next == next_prec_and_degree(kind)
        IN  succ # {} =>
                /\ \E pair \in succ : next.prec = pair.prec
                /\ \A pair \in succ : next.prec <= pair.prec
                /\ \E pair \in succ : next.degree = pair.degree
                /\ \A pair \in succ : next.degree <= pair.degree

\* Two successes (p1, d1), (p2, d2) with p1 < p2 and d1 > d2, and the planner
\* returns (p1, d2), a coordinate that was never attempted.
C1_Witness ==
    \E kind \in FieldKinds :
        LET record == _dict_of_prec_records(kind)
            next == next_prec_and_degree(kind)
        IN  \E a \in KeysWith(record, TRUE), b \in KeysWith(record, TRUE) :
                /\ a.prec < b.prec
                /\ a.degree > b.degree
                /\ next = PrecDegreeTuple(a.prec, b.degree)
                /\ next \notin DOMAIN record

\* C2: for a field kind whose record is empty, next_prec_and_degree returns
\* the defaults (1000, 20), whether or not the other field is resolved.
C2_EmptyRecordGivesDefaults ==
    \A kind \in FieldKinds :
        DOMAIN _dict_of_prec_records(kind) = {} =>
            next_prec_and_degree(kind) = PrecDegreeTuple(1000, 20)

\* An empty record beside a resolved other field.
C2_Witness ==
    \E kind \in FieldKinds :
        /\ DOMAIN _dict_of_prec_records(kind) = {}
        /\ OtherField(kind) # None
        /\ next_prec_and_degree(kind) = PrecDegreeTuple(1000, 20)

\* This step is a failed attempt of the field kind at the coordinate the
\* planner returned, no attempt of the kind having succeeded before.
FailedPlannerAttempt(kind) ==
    /\ last'.op = MethodOf(kind)
    /\ ~last'.hit
    /\ last'.ret = None
    /\ KeysWith(_dict_of_prec_records(kind), TRUE) = {}
    /\ _dict_of_prec_records(kind)' =
           DictSet(_dict_of_prec_records(kind), next_prec_and_degree(kind), FALSE)

\* C3 as claimed: after each failed attempt at the planner's coordinate the
\* planner returns a strictly larger precision and a strictly larger degree,
\* also when the other field is resolved.
C3_Original ==
    [][\A kind \in FieldKinds :
           FailedPlannerAttempt(kind) =>
               LET before == next_prec_and_degree(kind)
                   after == next_prec_and_degree(kind)'
               IN  /\ after.prec > before.prec
                   /\ after.degree > before.degree]_vars

\* C3 as amended: after each failed attempt at the planner's coordinate the
\* planner returns a strictly larger precision; it returns a strictly larger
\* degree when the other field is unresolved.
C3_EscalationMonotone ==
    [][\A kind \in FieldKinds :
           FailedPlannerAttempt(kind) =>
               LET before == next_prec_and_degree(kind)
                   after == next_prec_and_degree(kind)'
               IN  /\ after.prec > before.prec
                   /\ OtherField(kind) = None => after.degree > before.degree]_vars

\* A failed attempt of the trace field at the planner's coordinate, the
\* invariant trace field being resolved, has escalated the precision.
C3_Witness ==
    /\ last.op = "trace_field"
    /\ last.ret = None
    /\ _invariant_trace_field # None
    /\ _trace_field_prec_record # EmptyDict
    /\ KeysWith(_trace_field_prec_record, TRUE) = {}
    /\ \A pair \in DOMAIN _trace_field_prec_record :
           next_prec_and_degree("trace field").prec > pair.prec

\* C4 as claimed: every coordinate next_prec_and_degree returns for a field
\* kind has a precision of at least 1 and a degree of at least 1.
C4_Claim ==
    \A kind \in FieldKinds :
        /\ next_prec_and_degree(kind).prec >= 1
        /\ next_prec_and_degree(kind).degree >= 1

\* C5: trace_field and invariant_trace_field, called with neither a
\* precision nor a degree while the field is cached, return the cached field,
\* make no find_field call and leave the records and the caches as they were.
C5_CacheHitChangesNothing ==
    [][/\ (_trace_field # None /\ trace_field(None, None)) =>
              /\ last'.ret = _trace_field
              /\ last'.find_field = 0
              /\ UNCHANGED <<caches, records, denoms>>
       /\ (_invariant_trace_field # None /\ invariant_trace_field(None, None)) =>
              /\ last'.ret = _invariant_trace_field
              /\ last'.find_field = 0
              /\ UNCHANGED <<caches, records, denoms>>]_vars

\* A field method has answered from its cache.
C5_Witness ==
    /\ last.op \in {"trace_field", "invariant_trace_field"}
    /\ last.hit
    /\ last.ret # None
    /\ last.ret \in {_trace_field, _invariant_trace_field}

\* C6 as claimed: a field method called with an explicit (prec, degree) that
\* its record already holds as a success returns the cached field without a
\* find_field call.
C6_Original ==
    [][\A p \in ExplicitPrecs, d \in ExplicitDegrees :
           /\ (/\ PrecDegreeTuple(p, d) \in KeysWith(_trace_field_prec_record, TRUE)
               /\ trace_field(Given(p), Given(d))) =>
                  /\ last'.find_field = 0
                  /\ last'.ret = _trace_field
           /\ (/\ PrecDegreeTuple(p, d) \in KeysWith(_invariant_trace_field_prec_record, TRUE)
               /\ invariant_trace_field(Given(p), Given(d))) =>
                  /\ last'.find_field = 0
                  /\ last'.ret = _invariant_trace_field]_vars

\* C6 as amended: with a success on record, a field method called without a
\* precision and a degree returns the cached field without a find_field call;
\* called with an explicit (prec, degree) that the record holds as a success it
\* calls find_field once and overwrites the entry with the new outcome.
C6_ReResolve ==
    [][/\ (KeysWith(_trace_field_prec_record, TRUE) # {} /\ trace_field(None, None)) =>
              /\ last'.hit
              /\ last'.find_field = 0
              /\ last'.ret = _trace_field
       /\ (/\ KeysWith(_invariant_trace_field_prec_record, TRUE) # {}
           /\ invariant_trace_field(None, None)) =>
              /\ last'.hit
              /\ last'.find_field = 0
              /\ last'.ret = _invariant_trace_field
       /\ \A p \in ExplicitPrecs, d \in ExplicitDegrees :
              /\ (/\ PrecDegreeTuple(p, d) \in KeysWith(_trace_field_prec_record, TRUE)
                  /\ trace_field(Given(p), Given(d))) =>
                     /\ last'.find_field = 1
                     /\ _trace_field_prec_record' =
                            DictSet(_trace_field_prec_record, PrecDegreeTuple(p, d),
                                    last'.ret # None)
              /\ (/\ PrecDegreeTuple(p, d)
                         \in KeysWith(_invariant_trace_field_prec_record, TRUE)
                  /\ invariant_trace_field(Given(p), Given(d))) =>
                     /\ last'.find_field = 1
                     /\ _invariant_trace_field_prec_record' =
                            DictSet(_invariant_trace_field_prec_record,
                                    PrecDegreeTuple(p, d), last'.ret # None)]_vars

\* The trace field is cached and the one coordinate of its record is a
\* failure: the success at that coordinate was overwritten by a second search.
C6_Witness ==
    /\ _trace_field # None
    /\ last.op = "trace_field"
    /\ last.find_field = 1
    /\ DOMAIN _trace_field_prec_record = {PrecDegreeTuple(500, 25)}
    /\ ~_trace_field_prec_record[PrecDegreeTuple(500, 25)]

\* C7: after dehn_fill the four invariants, the roots and the generators are
\* None, the four records are empty, the denominators and their residue
\* characteristics are None, and the planner returns for every kind what it
\* returns after construction.
C7_DehnFillResets ==
    last.op = "dehn_fill" =>
        /\ _trace_field = None
        /\ _trace_field_numerical_root = None
        /\ _trace_field_generators = None
        /\ _invariant_trace_field = None
        /\ _invariant_trace_field_numerical_root = None
        /\ _invariant_trace_field_generators = None
        /\ _quaternion_algebra = None
        /\ _invariant_quaternion_algebra = None
        /\ \A kind \in Kinds : DOMAIN _dict_of_prec_records(kind) = {}
        /\ _denominators = None
        /\ _denominator_residue_characteristics = None
        /\ next_prec_and_degree("tf") = PrecDegreeTuple(1000, 20)
        /\ next_prec_and_degree("itf") = PrecDegreeTuple(1000, 20)
        /\ next_prec_and_degree("qa") = 1000
        /\ next_prec_and_degree("iqa") = 1000

\* dehn_fill has run.
C7_Witness ==
    /\ last.op = "dehn_fill"
    /\ TotalKeys = 0
    /\ _trace_field = None

\* The entries a call wrote, over the four records.
TotalWrites(wrote) ==
    wrote["trace field"] + wrote["invariant trace field"]
    + wrote["quaternion algebra"] + wrote["invariant quaternion algebra"]

\* C8: a failed call of a resolution method returns None and leaves every
\* value that was cached before it (field, root, generators, algebra, of
\* every kind) and the denominators as they were; the failure is written in a
\* precision record.
C8_FailureKeepsCachedValues ==
    [][(last'.op \in ResolutionMethods /\ ~last'.hit /\ last'.ret = None) =>
           /\ _trace_field # None => _trace_field' = _trace_field
           /\ _trace_field_numerical_root # None =>
                  _trace_field_numerical_root' = _trace_field_numerical_root
           /\ _trace_field_generators # None =>
                  _trace_field_generators' = _trace_field_generators
           /\ _invariant_trace_field # None =>
                  _invariant_trace_field' = _invariant_trace_field
           /\ _invariant_trace_field_numerical_root # None =>
                  _invariant_trace_field_numerical_root' =
                      _invariant_trace_field_numerical_root
           /\ _invariant_trace_field_generators # None =>
                  _invariant_trace_field_generators' = _invariant_trace_field_generators
           /\ _quaternion_algebra # None => _quaternion_algebra' = _quaternion_algebra
           /\ _invariant_quaternion_algebra # None =>
                  _invariant_quaternion_algebra' = _invariant_quaternion_algebra
           /\ UNCHANGED denoms
           /\ \E kind \in Kinds :
                  /\ last'.wrote[kind] = 1
                  /\ KeysWith(_dict_of_prec_records(kind)', FALSE) # {}]_vars

\* A search of the trace field has failed while the trace field was cached.
C8_Witness ==
    /\ last.op = "trace_field"
    /\ ~last.hit
    /\ last.ret = None
    /\ _trace_field # None
    /\ KeysWith(_trace_field_prec_record, FALSE) # {}

\* C9 as claimed: every call of a resolution method that is not answered from
\* the cache writes exactly one entry, over the four records.
C9_Original ==
    (last.op \in ResolutionMethods /\ ~last.hit) => TotalWrites(last.wrote) = 1

\* The record of the kind changes by the writes reported: none, or the entry
\* at one key.
WritesMatch(kind) ==
    LET record == _dict_of_prec_records(kind)
        after == _dict_of_prec_records(kind)'
    IN  IF last'.wrote[kind] = 0
        THEN after = record
        ELSE /\ last'.wrote[kind] = 1
             /\ \E key \in DOMAIN after : after = DictSet(record, key, after[key])

\* The entries a call may write: `own` in the record of the kind asked for,
\* `field` in the record of its field, `propagated` in the invariant trace
\* field's record.
Wrote(tf, itf, qa, iqa) ==
    [k \in Kinds |->
        CASE k = "trace field" -> tf
          [] k = "invariant trace field" -> itf
          [] k = "quaternion algebra" -> qa
          [] k = "invariant quaternion algebra" -> iqa]

\* The trace field was found in this step, on a manifold that is not a
\* mod-2-homology sphere, the invariant trace field being unresolved.
Propagated ==
    /\ _trace_field' # None
    /\ \E key \in DOMAIN _trace_field_prec_record' :
           /\ _trace_field_prec_record' = DictSet(_trace_field_prec_record, key, TRUE)
    /\ _invariant_trace_field = None
    /\ ~is_modtwo_homology_sphere

\* C9 as amended: a call that is not answered from the cache writes at most
\* one entry in each record. trace_field writes one in the trace field's
\* record and, exactly when it propagates its result, one in the invariant
\* trace field's; invariant_trace_field writes one in its own; an algebra
\* method whose field is cached writes one in its own; an algebra method whose
\* field is not cached writes what the attempt of the field writes, and one in
\* its own only if that attempt succeeded.
C9_WritesPerCall ==
    [][(last'.op \in ResolutionMethods /\ ~last'.hit) =>
           /\ \A kind \in Kinds : WritesMatch(kind)
           /\ last'.op = "trace_field" =>
                  last'.wrote = Wrote(1, IF last'.ret # None /\ Propagated THEN 1 ELSE 0, 0, 0)
           /\ last'.op = "invariant_trace_field" =>
                  last'.wrote = Wrote(0, 1, 0, 0)
           /\ last'.op = "quaternion_algebra" =>
                  last'.wrote =
                      IF _trace_field # None
                      THEN Wrote(0, 0, 1, 0)
                      ELSE Wrote(1, IF Propagated THEN 1 ELSE 0,
                                 IF _trace_field' # None THEN 1 ELSE 0, 0)
           /\ last'.op = "invariant_quaternion_algebra" =>
                  last'.wrote =
                      IF _invariant_trace_field # None
                      THEN Wrote(0, 0, 0, 1)
                      ELSE Wrote(0, 1, 0, IF _invariant_trace_field' # None THEN 1 ELSE 0)
      ]_vars

\* quaternion_algebra, called with no trace field cached, has written in
\* three records.
C9_Witness ==
    /\ last.op = "quaternion_algebra"
    /\ last.wrote = Wrote(1, 1, 1, 0)

\* This step attempts the trace field: trace_field, or quaternion_algebra
\* with no trace field cached.
TraceFieldAttempted ==
    /\ ~last'.hit
    /\ \/ last'.op = "trace_field"
       \/ last'.op = "quaternion_algebra" /\ _trace_field = None

\* The key and outcome the step wrote in the trace field's record.
TraceFieldWritten(key, outcome) ==
    /\ key \in DOMAIN _trace_field_prec_record'
    /\ _trace_field_prec_record'[key] = outcome
    /\ _trace_field_prec_record' = DictSet(_trace_field_prec_record, key, outcome)

\* C10: when an attempt of the trace field at (p, d) succeeds on a manifold
\* that is not a mod-2-homology sphere while the invariant trace field is
\* unresolved, the invariant trace field's field, root and generators become
\* the trace field's and its record holds a success at (p, d); in every other
\* case the attempt leaves the invariant trace field's cache and record as
\* they were.
C10_Propagation ==
    [][TraceFieldAttempted =>
           IF /\ \E key \in DOMAIN _trace_field_prec_record' : TraceFieldWritten(key, TRUE)
              /\ ~is_modtwo_homology_sphere
              /\ _invariant_trace_field = None
           THEN /\ _invariant_trace_field' = _trace_field'
                /\ _invariant_trace_field_numerical_root' = _trace_field_numerical_root'
                /\ _invariant_trace_field_generators' = _trace_field_generators'
                /\ _invariant_trace_field' # None
                /\ \A key \in DOMAIN _trace_field_prec_record' :
                       TraceFieldWritten(key, TRUE) =>
                           _invariant_trace_field_prec_record' =
                               DictSet(_invariant_trace_field_prec_record, key, TRUE)
           ELSE UNCHANGED <<_invariant_trace_field, _invariant_trace_field_numerical_root,
                            _invariant_trace_field_generators,
                            _invariant_trace_field_prec_record>>]_vars

\* trace_field has found the trace field on a manifold that is not a
\* mod-2-homology sphere and the invariant trace field holds the same result,
\* on record at the same coordinate.
C10_Witness ==
    /\ last.op = "trace_field"
    /\ last.ret # None
    /\ ~is_modtwo_homology_sphere
    /\ _invariant_trace_field = last.ret
    /\ _invariant_trace_field_generators = _trace_field_generators
    /\ _invariant_trace_field_prec_record = _trace_field_prec_record
    /\ KeysWith(_invariant_trace_field_prec_record, TRUE) # {}

AlgebraMethods == {"quaternion_algebra", "invariant_quaternion_algebra"}

\* C11 as claimed: the epsilon loop of the algebra methods ends within a
\* bounded number of tries: there is a number of retries, smaller than the
\* number on which the collaborators of the model return a zero entry, that no
\* call exceeds.
C11_Claim ==
    last.op \in AlgebraMethods => last.epsilon_coefficient < 10 * 10^MaxEpsilonRetries

\* C12: with the invariant trace field, the invariant quaternion algebra and
\* the denominators known, is_arithmetic returns True when the algebra
\* ramifies at as many real places as the field has, the field has one
\* complex place and the set of denominators is empty, and False otherwise.
C12_ArithmeticIffThreeTests ==
    (/\ last.op = "is_arithmetic"
     /\ _invariant_trace_field # None
     /\ _invariant_quaternion_algebra # None
     /\ _denominators # None) =>
        LET r == _invariant_trace_field.deg - 2 * _invariant_trace_field.complex_places
            c == _invariant_trace_field.complex_places
            k == _invariant_quaternion_algebra.ramified_real_places
        IN  /\ last.ret \in {Bool(TRUE), Bool(FALSE)}
            /\ last.ret = Bool(TRUE) <=>
                   (k = r /\ c = 1 /\ _denominators.elements = {})

\* is_arithmetic has returned True for a field with real places, every one of
\* them ramified, one complex place and no denominators.
C12_Witness ==
    /\ last.op = "is_arithmetic"
    /\ last.ret = Bool(TRUE)
    /\ _invariant_trace_field.deg > 2
    /\ _invariant_trace_field.complex_places = 1
    /\ _invariant_quaternion_algebra.ramified_real_places =
           _invariant_trace_field.deg - 2
    /\ _denominators = PySet({})

\* C13: is_arithmetic, called while the invariant trace field, the invariant
\* quaternion algebra or the denominators are None, returns None, makes no
\* find_field call and changes nothing; called with the two invariants known
\* and an empty set of denominators it returns a bool.
C13_UnknownWhenUnresolved ==
    [][last'.op = "is_arithmetic" =>
           /\ (\/ _invariant_trace_field = None
               \/ _invariant_quaternion_algebra = None
               \/ _denominators = None) =>
                  /\ last'.ret = None
                  /\ last'.find_field = 0
                  /\ UNCHANGED <<homology, caches, records, denoms, approx>>
           /\ (/\ _invariant_trace_field # None
               /\ _invariant_quaternion_algebra # None
               /\ _denominators = PySet({})) =>
                  last'.ret \in {Bool(TRUE), Bool(FALSE)}]_vars

\* is_arithmetic has returned None with the two invariants known and the
\* denominators not computed.
C13_Witness ==
    /\ last.op = "is_arithmetic"
    /\ last.ret = None
    /\ _invariant_trace_field # None
    /\ _invariant_quaternion_algebra # None
    /\ _denominators = None

\* C18: next_prec_and_degree asked for a name that is none of 'tf', 'trace
\* field', 'itf', 'invariant trace field', 'qa', 'quaternion algebra', 'iqa',
\* 'invariant quaternion algebra', letter case and surrounding whitespace
\* aside, raises ValueError; asked for one of them it answers from the record
\* of the kind, as it does for the long name of the kind.
C18_NamesOfKinds ==
    /\ \A name \in Unrecognized : next_prec_and_degree(name) = Raised("ValueError")
    /\ \A kind \in Kinds : \A name \in Spellings[kind] :
           /\ fixed_names[name] = kind
           /\ _dict_of_prec_records(fixed_names[name]) = _dict_of_prec_records(kind)
           /\ next_prec_and_degree(name) = next_prec_and_degree(kind)

\* The four records differ and the planner answers ' QA ' from the
\* quaternion algebra's.
C18_Witness ==
    /\ _trace_field_prec_record # _invariant_trace_field_prec_record
    /\ _quaternion_algebra_prec_record # _invariant_quaternion_algebra_prec_record
    /\ next_prec_and_degree(" QA ") = next_prec_and_degree("quaternion algebra")
    /\ next_prec_and_degree(" QA ") # next_prec_and_degree("invariant quaternion algebra")
    /\ next_prec_and_degree("qa.") = Raised("ValueError")

\* C19: denominators returns None and leaves the denominators None while the
\* trace field's generators are None; with a set computed, empty or not, it
\* returns that set from the cache; and no call but dehn_fill changes a set
\* that was computed, or its residue characteristics.
C19_DenominatorsPersist ==
    [][/\ (last'.op = "denominators" /\ _denominators = None
                /\ _trace_field_generators = None) =>
              /\ last'.ret = None
              /\ _denominators' = None
       /\ (last'.op = "denominators" /\ _denominators # None) =>
              /\ last'.ret = _denominators
              /\ last'.hit
       /\ (last'.op # "dehn_fill" /\ _denominators # None) =>
              /\ _denominators' = _denominators
              /\ _denominator_residue_characteristics' =
                     _denominator_residue_characteristics]_vars

\* denominators has answered with the empty set it computed before the trace
\* field was found again, with generators that have a denominator.
C19_Witness ==
    /\ last.op = "denominators"
    /\ last.hit
    /\ last.ret = PySet({})
    /\ _denominators = PySet({})
    /\ PrimeIdealsOf(_trace_field_generators) # {}

AlgebraKinds == {"quaternion algebra", "invariant quaternion algebra"}

\* The field an algebra kind is defined over.
FieldOf(kind) ==
    IF kind = "quaternion algebra" THEN "trace field" ELSE "invariant trace field"

CompareMethods == {"compare_arithmetic_invariants", "has_same_arithmetic_invariants"}

\* C14 as claimed: from its call to its return, compare_arithmetic_invariants
\* or has_same_arithmetic_invariants runs no find_field and leaves the
\* precision records, the cached fields and algebras and the denominators as
\* they were.
C14_Claim ==
    [][ (\/ call # None /\ call.op \in CompareMethods
         \/ call' # None /\ call'.op \in CompareMethods)
        => /\ last'.find_field = 0
           /\ UNCHANGED <<caches, records, denoms>> ]_vars

\* C15 as claimed: is_arithmetic called with an invariant it needs unknown,
\* and a comparison called on a manifold with nothing resolved, end in an
\* error and return no value.
C15_Claim ==
    [][ /\ (call = None /\ call' = None /\ last'.op = "is_arithmetic"
             /\ is_arithmetic_unknown)
            => last'.ret.tag = "raised"
        /\ (call # None /\ call' = None /\ comparisons = 1)
            => last'.ret.tag = "raised" ]_vars

\* C16 as claimed: when the trace field of self is not the same field as the
\* trace field of other, the comparison of the denominators is False, also
\* for isomorphic fields and two empty sets.
C16_Claim ==
    [][ ( /\ call # None
          /\ call.at = "line 899"
          /\ call' = None
          /\ _trace_field # None
          /\ ~same_field(_trace_field, call.other._trace_field) )
        => CASE call.op = "compare_arithmetic_invariants" ->
                    /\ last'.ret.tag = "dict"
                    /\ ~last'.ret.items["denominators"]
             [] OTHER -> last'.ret = Bool(FALSE) ]_vars

\* The field and the algebra of other in the comparison of algebras in
\* progress.
OtherFieldCompared ==
    IF call._invariant_qa THEN call.other._invariant_trace_field
    ELSE call.other._trace_field

OtherAlgebraCompared ==
    IF call._invariant_qa THEN call.other._invariant_quaternion_algebra
    ELSE call.other._quaternion_algebra

\* What the comparison of algebras of this step gave, and the collaborators
\* it called: in the report when the comparison returns to the caller, in
\* arith_dict when compare_arithmetic_invariants goes on.
AlgebrasValue ==
    IF call' = None
    THEN last'.ret
    ELSE Bool(call'.arith_dict[IF call._invariant_qa THEN "invariant quaternion algebra"
                               ELSE "quaternion algebra"])

AlgebrasCollaborators == IF call' = None THEN last'.collaborators ELSE call'.collaborators

\* C17: in a comparison of two known algebras, over fields that are not the
\* same field, a different number of ramified real places or different
\* ramified residue characteristics give False without a call of express,
\* special_isomorphism or _conjugate_invariants; over the same field the
\* result is whether the two algebras are isomorphic (the same ramification),
\* without a call of special_isomorphism.
C17_ShortCircuit ==
    [][ (call # None /\ call.at = "line 817" /\ call.self_field # None /\ last.ret # None)
        => LET self_qa == last.ret
               other_qa == OtherAlgebraCompared
               same_real == self_qa.ramified_real_places = other_qa.ramified_real_places
               same_residue == self_qa.ramified_residue_characteristics =
                                   other_qa.ramified_residue_characteristics
           IN  IF same_field(call.self_field, OtherFieldCompared)
               THEN /\ AlgebrasValue = Bool(same_real /\ same_residue)
                    /\ AlgebrasCollaborators.special_isomorphism = 0
               ELSE (~same_real \/ ~same_residue)
                    => /\ AlgebrasValue = Bool(FALSE)
                       /\ AlgebrasCollaborators = NoCollaborators ]_vars

\* C17 witness: compare_arithmetic_invariants has compared the quaternion
\* algebras of two fields that are the same subfield of CC but not the same
\* field, with different numbers of ramified real places.
C17_Witness ==
    /\ call # None
    /\ call.op = "compare_arithmetic_invariants"
    /\ call.at = "line 811"
    /\ call._invariant_qa
    /\ ~call.arith_dict["quaternion algebra"]
    /\ call.collaborators = NoCollaborators
    /\ _trace_field # None
    /\ _quaternion_algebra # None
    /\ ~same_field(_trace_field, call.other._trace_field)
    /\ same_subfield_of_CC(_trace_field, call.other._trace_field, FALSE)
    /\ _quaternion_algebra.ramified_real_places #
           call.other._quaternion_algebra.ramified_real_places

\* C21 as claimed: a comparison of two known algebras over fields that are
\* the same subfield of CC only up to conjugation, with the same numbers of
\* ramified real places and the same ramified residue characteristics, ends
\* with a bool after a call of _conjugate_invariants; and
\* _conjugate_invariants, called on a manifold whose fields, algebras and
\* denominators are known, returns its dict.
C21_Claim ==
    [][ /\ ( /\ call # None
              /\ call.at = "line 817"
              /\ call.self_field # None
              /\ last.ret # None
              /\ same_subfield_of_CC(call.self_field, OtherFieldCompared, TRUE)
              /\ ~same_subfield_of_CC(call.self_field, OtherFieldCompared, FALSE)
              /\ last.ret.ramified_real_places =
                     OtherAlgebraCompared.ramified_real_places
              /\ last.ret.ramified_residue_characteristics =
                     OtherAlgebraCompared.ramified_residue_characteristics )
            => /\ AlgebrasValue.tag = "bool"
               /\ AlgebrasCollaborators._conjugate_invariants = 1
        /\ ( /\ call = None
              /\ last'.op = "_conjugate_invariants"
              /\ _trace_field # None
              /\ _invariant_trace_field # None
              /\ _quaternion_algebra # None
              /\ _invariant_quaternion_algebra # None
              /\ _denominators # None )
            => last'.ret.tag = "dict" ]_vars

\* C28: a call of _conjugate_invariants, whether it returns or raises, leaves
\* the cached fields, roots, generators and algebras, the denominators, the
\* precision records, the approximate generators and the homology as they
\* were.
C28_ConjugateChangesNothing ==
    [][ (call = None /\ call' = None /\ last'.op = "_conjugate_invariants")
        => UNCHANGED <<homology, caches, records, denoms, approx>> ]_vars

\* C28 witness: _conjugate_invariants has returned the dict of a manifold
\* whose trace field is known, with the field under the conjugate embedding,
\* and the generators of the manifold are not conjugated.
C28_Witness ==
    /\ last.op = "_conjugate_invariants"
    /\ last.ret.tag = "dict"
    /\ _trace_field # None
    /\ last.ret.trace_field.field.embedding = "conjugate of z"
    /\ _trace_field.embedding = "z"
    /\ _approx_trace_field_gens.embedding = "z"

\* ceil(log(num/den, 2)) for positive integers num, den: the floor when
\* num/den is a power of two, one more otherwise.
CeilLog2(num, den) ==
    LET k == FloorLog2(num, den)
        power_of_two == IF k >= 0 THEN num = den * 2^k ELSE num * 2^(0 - k) = den
    IN  IF power_of_two THEN k ELSE k + 1

\* C22 as claimed: with only failures in the record of the trace field, the
\* invariant trace field known with degree d2 and a manifold that is not a
\* mod-2-homology sphere, the planner returns for the trace field the
\* precision P = largest failed precision + prec_increment and the degree
\* ceil(log2(P * (degree_increment / prec_increment) / d2) + 1) * d2.
C22_Claim ==
    ( /\ DOMAIN _trace_field_prec_record # {}
      /\ KeysWith(_trace_field_prec_record, TRUE) = {}
      /\ _invariant_trace_field # None
      /\ ~is_modtwo_homology_sphere )
    => LET P == SetMax({pair.prec : pair \in DOMAIN _trace_field_prec_record})
                + prec_increment
           d2 == _invariant_trace_field.deg
           newpair == next_prec_and_degree("trace field")
       IN  /\ newpair.prec = P
           /\ newpair.degree =
                  (CeilLog2(P * degree_increment, prec_increment * d2) + 1) * d2

\* C23: for a field kind whose record holds only failures, the planner
\* returns the largest failed precision plus prec_increment and, when the
\* other field is known, the degree of the other field: for the trace field
\* on a mod-2-homology sphere, for the invariant trace field on any manifold.
\* For an empty record it returns the defaults, and for a record with a
\* success the least successful precision and degree, whatever the degree of
\* the other field.
C23_EqualDegreeCorrection ==
    \A kind \in FieldKinds :
        LET record == _dict_of_prec_records(kind)
            successes == KeysWith(record, TRUE)
            newpair == next_prec_and_degree(kind)
        IN  /\ ( /\ DOMAIN record # {}
                  /\ successes = {}
                  /\ OtherField(kind) # None
                  /\ (kind = "trace field" => is_modtwo_homology_sphere) )
                => /\ newpair.degree = OtherField(kind).deg
                   /\ newpair.prec =
                          SetMax({pair.prec : pair \in DOMAIN record}) + prec_increment
            /\ DOMAIN record = {}
                => newpair = PrecDegreeTuple(starting_prec, starting_degree)
            /\ successes # {}
                => /\ newpair.prec = SetMin({pair.prec : pair \in successes})
                   /\ newpair.degree = SetMin({pair.degree : pair \in successes})

\* C23 witness: the trace field is known, the invariant trace field has only
\* failed, and the planner returns for it the degree of the trace field,
\* which is not the escalated degree.
C23_Witness ==
    /\ _trace_field # None
    /\ DOMAIN _invariant_trace_field_prec_record # {}
    /\ KeysWith(_invariant_trace_field_prec_record, TRUE) = {}
    /\ next_prec_and_degree("invariant trace field").degree = _trace_field.deg
    /\ \A pair \in DOMAIN _invariant_trace_field_prec_record :
           pair.degree + degree_increment # _trace_field.deg

\* The entries of a record that a step added or changed.
Written(kind) ==
    LET record == _dict_of_prec_records(kind)
    IN  {key \in DOMAIN record' : key \notin DOMAIN record \/ record'[key] # record[key]}

\* C24: a step other than a reset removes no key from a precision record and
\* adds or changes at most one entry of it, an entry the call wrote; a call
\* of trace_field or invariant_trace_field that made an attempt leaves in its
\* record an entry with the outcome of the attempt, also where the
\* coordinate had the other outcome before.  A record loses keys only in a
\* reset, which empties the four records.
C24_OverwriteOnly ==
    [][ /\ \A kind \in Kinds :
               LET record == _dict_of_prec_records(kind)
               IN  IF last'.op = "dehn_fill"
                   THEN record' = EmptyDict
                   ELSE /\ DOMAIN record \subseteq DOMAIN record'
                        /\ Cardinality(Written(kind)) <= 1
                        /\ Cardinality(Written(kind)) <= last'.wrote[kind]
        /\ \A kind \in FieldKinds :
               (last'.op = MethodOf(kind) /\ ~last'.hit)
               => \E key \in DOMAIN _dict_of_prec_records(kind)' :
                      _dict_of_prec_records(kind)'[key] = (last'.ret # None) ]_vars

\* C24 witness: the only entry of the record of the trace field is a failure
\* at a coordinate the caller passed, and the trace field is known: the
\* coordinate held a success, and a later failure at it took its place.
C24_Witness ==
    /\ _trace_field # None
    /\ last.op = "trace_field"
    /\ last.ret = None
    /\ \E prec \in ExplicitPrecs : \E degree \in ExplicitDegrees :
           _trace_field_prec_record = DictSet(EmptyDict, PrecDegreeTuple(prec, degree), FALSE)

\* C25 as claimed: quaternion_algebra, called while the trace field is
\* unknown, calls no find_field and leaves the cache and the record of the
\* trace field and of the invariant trace field as they were.
C25_Claim ==
    [][ (call = None /\ call' = None /\ last'.op = "quaternion_algebra"
         /\ _trace_field = None)
        => /\ last'.find_field = 0
           /\ UNCHANGED <<_trace_field, _trace_field_numerical_root,
                          _trace_field_generators, _trace_field_prec_record,
                          _invariant_trace_field, _invariant_trace_field_numerical_root,
                          _invariant_trace_field_generators,
                          _invariant_trace_field_prec_record>> ]_vars

\* C26 as claimed: in every state the planner returns for each algebra a
\* precision at least as large as the precision it returns for the field of
\* the algebra.
C26_Claim ==
    /\ next_prec_and_degree("quaternion algebra")
           >= next_prec_and_degree("trace field").prec
    /\ next_prec_and_degree("invariant quaternion algebra")
           >= next_prec_and_degree("invariant trace field").prec

ComputeAt(at) ==
    call # None /\ call.op = "compute_arithmetic_invariants" /\ call.at = at

\* C30: compute_arithmetic_invariants plans the six coordinates in the state
\* it is called in, each the argument the caller passed or, without an
\* argument, what next_prec_and_degree returns there; it then calls
\* trace_field, invariant_trace_field, quaternion_algebra and
\* invariant_quaternion_algebra in this order, each at its planned
\* coordinate; and when it returns with the exact generators of the trace
\* field known, the denominators and their residue characteristics are known.
C30_ComputeFillsOut ==
    [][ /\ ( /\ call = None
              /\ call' # None
              /\ call'.op = "compute_arithmetic_invariants" )
            => /\ \E prec \in PrecArgs : \E degree \in DegreeArgs(prec) :
                      LET tf == next_prec_and_degree("trace field")
                          itf == next_prec_and_degree("invariant trace field")
                          qa == next_prec_and_degree("quaternion algebra")
                          iqa == next_prec_and_degree("invariant quaternion algebra")
                      IN  call'.planned =
                              IF prec = None
                              THEN [tf_prec |-> tf.prec, tf_degree |-> tf.degree,
                                    itf_prec |-> itf.prec, itf_degree |-> itf.degree,
                                    qa_prec |-> qa, iqa_prec |-> iqa]
                              ELSE [tf_prec |-> prec.val, tf_degree |-> degree.val,
                                    itf_prec |-> prec.val, itf_degree |-> degree.val,
                                    qa_prec |-> prec.val, iqa_prec |-> prec.val]
               /\ last'.op = "trace_field"
               /\ last'.find_field = 1
               /\ PrecDegreeTuple(call'.planned.tf_prec, call'.planned.tf_degree)
                      \in DOMAIN _trace_field_prec_record'
               /\ call'.at = "line 660"
        /\ ComputeAt("line 660")
            => /\ last'.op = "invariant_trace_field"
               /\ last'.find_field = 1
               /\ PrecDegreeTuple(call.planned.itf_prec, call.planned.itf_degree)
                      \in DOMAIN _invariant_trace_field_prec_record'
               /\ call' = [call EXCEPT !.at = "line 661"]
        /\ ComputeAt("line 661")
            => /\ last'.op = "quaternion_algebra"
               /\ \/ call.planned.qa_prec \in DOMAIN _quaternion_algebra_prec_record'
                  \/ _trace_field' = None
               /\ call' = [call EXCEPT !.at = "line 662"]
        /\ ComputeAt("line 662")
            => /\ last'.op = "invariant_quaternion_algebra"
               /\ \/ call.planned.iqa_prec
                         \in DOMAIN _invariant_quaternion_algebra_prec_record'
                  \/ _invariant_trace_field' = None
               /\ call' = [call EXCEPT !.at = "line 663"]
        /\ ( /\ call # None
              /\ call.op = "compute_arithmetic_invariants"
              /\ call' = None
              /\ _trace_field_generators' # None )
            => /\ _denominators' # None
               /\ _denominator_residue_characteristics' # None ]_vars

\* C30 witness: compute_arithmetic_invariants has returned after a failure of
\* the trace field at its first coordinate: the quaternion algebra was tried
\* at the precision planned before that failure, the trace field was found
\* there, and the denominators are known.
C30_Witness ==
    /\ call = None
    /\ last.op = "compute_arithmetic_invariants"
    /\ PrecDegreeTuple(starting_prec, starting_degree)
           \in KeysWith(_trace_field_prec_record, FALSE)
    /\ starting_prec \in DOMAIN _quaternion_algebra_prec_record
    /\ _trace_field_generators # None
    /\ _denominators # None
    /\ _denominator_residue_characteristics # None

\* A field is resolved although no search has started since the last reset.
ResolvedWithoutSearch ==
    /\ ~searched_since_reset
    /\ (_trace_field # None \/ _invariant_trace_field # None)

\* The record and the cache of the accessor of the attempt in flight.
FlightRecord ==
    IF flight.op = "trace_field" THEN _trace_field_prec_record
    ELSE _invariant_trace_field_prec_record

FlightField ==
    IF flight.op = "trace_field" THEN _trace_field ELSE _invariant_trace_field

\* C29: when dehn_fill has reset the object between the call of find_field of
\* a trace_field or invariant_trace_field attempt and the write of its
\* result, the write puts the outcome into the record the reset emptied and,
\* on success, caches the field found on the generators from before the
\* filling, so that a field is resolved with no search since the reset; and
\* such a state is reached only when calls interleave.
C29_InterleavedFillingUnsafe ==
    [][ /\ ( /\ searching
              /\ flight.filled
              /\ flight'.at = "written" )
            => /\ FlightRecord = EmptyDict
               /\ FlightRecord' =
                      DictSet(EmptyDict, PrecDegreeTuple(flight.prec, flight.degree),
                              flight.exact_field_data # None)
               /\ flight.exact_field_data # None
                      => /\ FlightField' = flight.exact_field_data.field
                         /\ ResolvedWithoutSearch'
        /\ ResolvedWithoutSearch' => interleaving' ]_vars

\* C29 witness: a filling came during a successful search of the trace field,
\* the result is written, and the trace field of the manifold before the
\* filling is cached with no search since the reset.
C29_Witness ==
    /\ interleaving
    /\ flight # None
    /\ flight.at = "written"
    /\ flight.op = "trace_field"
    /\ flight.filled
    /\ flight.exact_field_data # None
    /\ ResolvedWithoutSearch
    /\ _trace_field = flight.exact_field_data.field
    /\ DOMAIN _trace_field_prec_record = {PrecDegreeTuple(flight.prec, flight.degree)}

\* The cached invariant of a kind.
CachedInvariant(kind) ==
    IF kind = "trace field" THEN _trace_field
    ELSE IF kind = "invariant trace field" THEN _invariant_trace_field
    ELSE IF kind = "quaternion algebra" THEN _quaternion_algebra
    ELSE _invariant_quaternion_algebra

\* C31: for each of the four kinds, when the record of the kind holds a
\* coordinate marked successful, the invariant of the kind is cached; so the
\* planner takes its branch for a record with a success only for a cached
\* kind, and a reset leaves neither a success nor a cached invariant.
C31_RecordImpliesCache ==
    /\ \A kind \in Kinds :
           KeysWith(_dict_of_prec_records(kind), TRUE) # {}
               => CachedInvariant(kind) # None
    /\ last.op = "dehn_fill"
           => \A kind \in Kinds :
                  /\ _dict_of_prec_records(kind) = EmptyDict
                  /\ CachedInvariant(kind) = None

\* C31 witness: every kind has a success in its record and is cached, the
\* trace field after a failure.
C31_Witness ==
    /\ \A kind \in Kinds :
           /\ KeysWith(_dict_of_prec_records(kind), TRUE) # {}
           /\ CachedInvariant(kind) # None
    /\ KeysWith(_trace_field_prec_record, FALSE) # {}

\* C32: a cached quaternion algebra is defined over the trace field that is
\* cached, and a cached invariant quaternion algebra over the invariant trace
\* field that is cached, also after a call with a precision and a degree has
\* resolved the field again while the algebra stayed cached.
C32_Claim ==
    \A kind \in AlgebraKinds :
        CachedInvariant(kind) # None
            => CachedInvariant(kind).field = CachedInvariant(FieldOf(kind))

\* C33 as claimed: when the comparison of denominators reaches two trace
\* fields that are isomorphic and not equal, the prec it passes to express
\* is one positive integer, the larger of the next precisions of the trace
\* field of the two manifolds, as the prec of the comparison of algebras is
\* the larger of the two next precisions of the algebra.
C33_Claim ==
    [][ ( /\ call # None
          /\ call.at = "line 899"
          /\ last.ret # None
          /\ call.other._denominators # None
          /\ _denominator_residue_characteristics =
                 call.other._denominator_residue_characteristics
          /\ ~same_field(_trace_field, call.other._trace_field)
          /\ is_isomorphic(_trace_field, call.other._trace_field) )
        => /\ same_denominators_prec(call.other) =
                  Given(SetMax({next_prec_and_degree("tf").prec,
                                other_next_prec_and_degree(call.other, "tf").prec}))
           /\ isomorphic_quaternion_algebras_prec(call.other, FALSE) =
                  Given(SetMax({next_prec_and_degree("qa"),
                                other_next_prec_and_degree(call.other, "qa")})) ]_vars

\* C34 as claimed: whenever the manifold is a mod-2-homology sphere, after
\* construction and after every filling, the approximate generators the
\* invariant trace field is searched on are the sequence the trace field is
\* searched on.
C34_Claim ==
    is_modtwo_homology_sphere
        => _approx_invariant_trace_field_gens = _approx_trace_field_gens

=============================================================================
